---- MODULE Spec2Model ----
(***************************************************************************)
(* Model of the dashboard of instagram-photo-style-creator (dashboard.js): *)
(* startup load of the credential, credential requests, publishing and     *)
(* gallery requests; and of the generation driver's gallery append         *)
(* (index.js).                                                             *)
(*                                                                         *)
(* Conventions.                                                            *)
(*   - A JavaScript value that may be null/undefined is a sequence of      *)
(*     length 0 (absent) or 1 (present).  A string that may be missing is  *)
(*     the empty string "", which JavaScript treats as falsy like          *)
(*     undefined.                                                          *)
(*   - The clock has a resolution of one hour: expiresAt and now are       *)
(*     absolute instants in hours, and two readings of Date.now() within   *)
(*     one tick are equal.  Record ids are such readings; the records on   *)
(*     file at the start carry earlier, negative ones.                     *)
(*   - Every await of the code is a step boundary: what runs between two   *)
(*     awaits is one action.                                               *)
(***************************************************************************)
EXTENDS Integers, Sequences, FiniteSets, TLC

(***************************************************************************)
(* Bounds of the model.                                                    *)
(***************************************************************************)
\* The clock advances at most this many hours during a run.
MaxNow == 1

(***************************************************************************)
(* Program constants.                                                      *)
(***************************************************************************)
HoursPerDay == 24
\* dashboard.js:89  daysUntilExpiry < 7
RefreshWindowDays == 7
\* dashboard.js:127  Date.now() + 60 * 24 * 60 * 60 * 1000
TokenLifetimeDays == 60
\* dashboard.js:465  const maxAttempts = 30
maxAttempts == 30

Null == <<>>
Some(v) == <<v>>
IsNull(o) == Len(o) = 0
Val(o) == o[1]

\* JavaScript truthiness of a string-or-undefined value.
Truthy(s) == s # ""

(***************************************************************************)
(* Values drawn by Init.                                                   *)
(***************************************************************************)
\* Expiry instants a stored record may carry, in hours relative to start:
\* expired, expiring now, inside the 7-day window, on its edge, outside it.
ExpiryChoices == {-24, 0, 1, 167, 168, 169, 1440}

StoredRecords ==
  [accessToken : {"tokA", ""},
   userId      : {"ig1"},
   username    : {"userA"},
   expiresAt   : {Null} \cup {Some(e) : e \in ExpiryChoices}]

\* The credential file: absent, unparseable, or a JSON record.
FileAbsent == [kind |-> "absent"]
FileCorrupt == [kind |-> "corrupt"]
FileJson(r) == [kind |-> "json", rec |-> r]

TokenFiles == {FileAbsent, FileCorrupt} \cup {FileJson(r) : r \in StoredRecords}

\* process.env: FB_APP_ID/FB_APP_SECRET, PUBLIC_URL, INSTAGRAM_ACCESS_TOKEN,
\* INSTAGRAM_USER_ID.
Envs ==
  [fbApp     : BOOLEAN,
   publicUrl : BOOLEAN,
   envToken  : {"", "envTok"},
   envUserId : {"", "envUid"}]

VARIABLES
  now,              \* Date.now(), in hours
  env,              \* process.env, fixed for a run
  tokensFile,       \* TOKENS_FILE on disk
  instagramTokens,  \* the module variable instagramTokens (Null or Some(record))
  loadPc,           \* position of the startup call loadTokens()
  loadedFile,       \* history: the file content loadTokens read
  loadedAt,         \* history: the clock when loadTokens read the file
  refreshRuns,      \* history: invocations of autoRefreshToken
  refreshCalls,     \* history: token-exchange fetches issued by autoRefreshToken
  refreshWrite,     \* the JSON text saveTokens is writing during the auto-refresh
  refreshAnswer,    \* history: what the token exchange of autoRefreshToken answered
  galleryFile,      \* output_folder/gallery.json on disk
  publishedOk,      \* history: image ids for which postToInstagram returned a result
  pubPc,            \* position of the publish request in flight
  pubEntry,         \* "handler": POST /api/post-to-instagram; "direct": postToInstagram
  pubImageId,       \* req.body.imageId
  pubCreds,         \* const creds of postToInstagram
  status,           \* let status of postToInstagram
  attempts,         \* let attempts of postToInstagram
  calls,            \* history: network calls and sleeps of the current attempt
  pubHist,          \* history: what the current attempt observed
  pubResult,        \* outcome reported to the caller ("" while in flight)
  pubWrite,         \* the JSON text markAsPosted is writing
  imageFiles,       \* ids of the records whose image file is in output_folder
  gReq,             \* the gallery requests and driver runs in flight, by slot
  gCount,           \* history: gallery requests and driver runs started
  lastWrite,        \* history: the request whose write of the document landed last
  pages,            \* the Facebook Pages of the user, as the platform lists them
  tReq,             \* the credential requests in flight, by slot
  tCount,           \* history: credential requests started
  drv,              \* a run of the generation driver
  gen,              \* the /api/generate request in flight, and history of earlier ones
  promptFile        \* output_folder/prompt-history.json on disk

credVars == <<env, tokensFile, instagramTokens>>
loadVars == <<loadPc, loadedFile, loadedAt, refreshRuns, refreshCalls, refreshWrite,
              refreshAnswer>>
galVars == <<galleryFile, publishedOk>>
reqVars == <<imageFiles, gReq, gCount, lastWrite>>
tokVars == <<pages, tReq, tCount>>
runVars == <<drv, gen, promptFile>>
pubVars == <<pubPc, pubEntry, pubImageId, pubCreds, status, attempts, calls, pubHist,
             pubResult, pubWrite>>

(***************************************************************************)
(* Startup: loadTokens and autoRefreshToken.                               *)
(***************************************************************************)
\* ExpiringSoon without the lower bound: an expired token counts as expiring.
ExpiringSoon_NoLowerBound(expiresAt, t) ==
  expiresAt - t < RefreshWindowDays * HoursPerDay

\* dashboard.js:86-89: the token expires within 7 days but has not expired.
\* daysUntilExpiry = (expiresAt - now) / one day, compared without rounding.
ExpiringSoon(expiresAt, t) ==
  /\ expiresAt - t < RefreshWindowDays * HoursPerDay
  /\ expiresAt - t > 0

\* dashboard.js:92
Expired(expiresAt, t) == expiresAt - t <= 0

\* dashboard.js:85 and 89: loadTokens calls autoRefreshToken for this record.
NeedsRefresh(rec, t) ==
  /\ ~IsNull(rec.expiresAt)
  /\ Truthy(rec.accessToken)
  /\ ExpiringSoon(Val(rec.expiresAt), t)

\* RefreshGuard without the test of FB_APP_ID and FB_APP_SECRET.
RefreshGuard_NoAppCheck(tokens, e) ==
  /\ ~IsNull(tokens)
  /\ Truthy(Val(tokens).accessToken)

\* dashboard.js:106: autoRefreshToken goes on to the token exchange.
RefreshGuard(tokens, e) ==
  /\ ~IsNull(tokens)
  /\ Truthy(Val(tokens).accessToken)
  /\ e.fbApp

\* dashboard.js:81: await fs.pathExists(TOKENS_FILE)
LoadPathExists ==
  /\ loadPc = "start"
  /\ loadPc' = IF tokensFile.kind = "absent" THEN "done" ELSE "read"
  /\ UNCHANGED <<runVars, tokVars, reqVars, now, credVars, loadedFile, loadedAt, refreshRuns, refreshCalls, refreshWrite,
                 refreshAnswer, galVars, pubVars>>

\* dashboard.js:82-100: the file is read and parsed; a record expiring soon
\* starts autoRefreshToken, which runs up to its fetch (dashboard.js:104-117).
LoadRead ==
  /\ loadPc = "read"
  /\ loadedFile' = Some(tokensFile)
  /\ loadedAt' = now
  /\ IF tokensFile.kind # "json"
       THEN \* readFile or JSON.parse throws: the catch unsets the credential
            /\ instagramTokens' = Null
            /\ loadPc' = "done"
            /\ UNCHANGED <<refreshRuns, refreshCalls>>
       ELSE /\ instagramTokens' = Some(tokensFile.rec)
            /\ IF NeedsRefresh(tokensFile.rec, now)
                 THEN /\ refreshRuns' = refreshRuns + 1
                      /\ IF RefreshGuard(Some(tokensFile.rec), env)
                           THEN /\ refreshCalls' = refreshCalls + 1
                                /\ loadPc' = "refreshing"
                           ELSE /\ loadPc' = "done"
                                /\ UNCHANGED refreshCalls
                 ELSE /\ loadPc' = "done"
                      /\ UNCHANGED <<refreshRuns, refreshCalls>>
  /\ UNCHANGED <<runVars, tokVars, reqVars, now, env, tokensFile, refreshWrite, refreshAnswer, galVars, pubVars>>

\* What the token-exchange endpoint may answer: the fetch or response.json()
\* throws, an error payload, a renewed token, or a payload without
\* access_token.
RefreshAnswers == {"throw", "error", "ok", "noToken"}

\* dashboard.js:126-127: the record after the in-place update.
Renewed(rec, answer, t) ==
  [rec EXCEPT !.accessToken = IF answer = "ok" THEN "tokNew" ELSE "",
              !.expiresAt = Some(t + TokenLifetimeDays * HoursPerDay)]

\* dashboard.js:117-129: the answer of the token exchange arrives.
RefreshResponse ==
  /\ loadPc = "refreshing"
  /\ \E answer \in RefreshAnswers :
       /\ refreshAnswer' = answer
       /\ IF answer \in {"throw", "error"} \/ IsNull(instagramTokens)
            THEN \* logged and swallowed (dashboard.js:120-123, 131-133); with
                 \* the credential unset meanwhile the assignment throws a
                 \* TypeError
                 /\ loadPc' = "done"
                 /\ UNCHANGED <<instagramTokens, refreshWrite>>
            ELSE /\ instagramTokens' = Some(Renewed(Val(instagramTokens), answer, now))
                 /\ refreshWrite' = Some(Renewed(Val(instagramTokens), answer, now))
                 /\ loadPc' = "saving"
  /\ UNCHANGED <<runVars, tokVars, reqVars, now, env, tokensFile, loadedFile, loadedAt, refreshRuns, refreshCalls,
                 galVars, pubVars>>

\* dashboard.js:140 under autoRefreshToken: fs.writeFile succeeds or throws.
RefreshSave ==
  /\ loadPc = "saving"
  /\ \E ok \in BOOLEAN :
       tokensFile' = IF ok THEN FileJson(Val(refreshWrite)) ELSE tokensFile
  /\ loadPc' = "done"
  /\ refreshWrite' = Null
  /\ UNCHANGED <<runVars, tokVars, reqVars, now, env, instagramTokens, loadedFile, loadedAt, refreshRuns, refreshCalls,
                 refreshAnswer, galVars, pubVars>>

(***************************************************************************)
(* Credential resolution.                                                  *)
(***************************************************************************)
\* getInstagramCreds taking the account id and username of a record that has
\* no token.
getInstagramCreds_Mixed(tokens, e) ==
  IF ~IsNull(tokens) /\ Truthy(Val(tokens).accessToken)
    THEN [accessToken |-> Val(tokens).accessToken,
          userId      |-> Val(tokens).userId,
          username    |-> Val(tokens).username]
    ELSE IF ~IsNull(tokens)
      THEN [accessToken |-> e.envToken,
            userId      |-> Val(tokens).userId,
            username    |-> Val(tokens).username]
      ELSE [accessToken |-> e.envToken,
            userId      |-> e.envUserId,
            username    |-> "silkpath.co"]

\* dashboard.js:144-158
getInstagramCreds(tokens, e) ==
  IF ~IsNull(tokens) /\ Truthy(Val(tokens).accessToken)
    THEN [accessToken |-> Val(tokens).accessToken,
          userId      |-> Val(tokens).userId,
          username    |-> Val(tokens).username]
    ELSE [accessToken |-> e.envToken,
          userId      |-> e.envUserId,
          username    |-> "silkpath.co"]

\* NotConnected testing the display name, which the fallback always sets.
NotConnected_ChecksUsername(creds) == ~Truthy(creds.username)

\* NotConnected without the test of the account id.
NotConnected_TokenOnly(creds) == ~Truthy(creds.accessToken)

\* dashboard.js:416 and 547: !creds.accessToken || !creds.userId
NotConnected(creds) == ~Truthy(creds.accessToken) \/ ~Truthy(creds.userId)

(***************************************************************************)
(* The gallery document.                                                   *)
(***************************************************************************)
\* A record as the generation driver appends it (index.js:446-453): the
\* favorited and posted fields do not exist yet.
NewImage(i) ==
  [id |-> i, caption |-> "", favorited |-> Null,
   postedToInstagram |-> Null, postedAt |-> Null]

GalleryJson(imgs) == [kind |-> "json", images |-> imgs]

\* FindIndex taking the first record whatever its id.
FindIndex_FirstRecord(imgs, i) == IF Len(imgs) > 0 THEN 1 ELSE 0

\* galleryData.images.find(img => img.id === imageId): the index of the first
\* record with this id, 0 when there is none.
FindIndex(imgs, i) ==
  IF \E k \in 1..Len(imgs) : imgs[k].id = i
    THEN CHOOSE k \in 1..Len(imgs) :
           /\ imgs[k].id = i
           /\ \A j \in 1..(k - 1) : imgs[j].id # i
    ELSE 0

\* dashboard.js:527-528
MarkPosted(imgs, k, t) ==
  [imgs EXCEPT ![k].postedToInstagram = Some(TRUE), ![k].postedAt = Some(t)]

(***************************************************************************)
(* Publishing: POST /api/post-to-instagram and postToInstagram.            *)
(***************************************************************************)
\* Ids a request may name: the stored record's and one no record has.
ImageIds == {-1, -2}

NoCalls == [head |-> 0, create |-> 0, sleep |-> 0, status |-> 0, publish |-> 0]

\* What the attempt has seen so far.
\*   credSource   where the credentials came from
\*   credExpired  the stored credential had expired when the attempt began
\*   connected    a token and an account id were available when it began
\*   headAnswer   the HEAD answer: was it 2xx, did it declare an image type
\*   preflightOk  the HEAD check passed
\*   created      the container creation answered without an error field
\*   ipSeen       status checks that answered IN_PROGRESS
\*   lastNoField  the last status answer had neither status_code nor status
\*   lastError    the last status answer carried an error payload
\*   wrote        the attempt has written the gallery document
NoHist ==
  [credSource |-> "none", credExpired |-> FALSE, connected |-> FALSE,
   headAnswer |-> Null, preflightOk |-> FALSE,
   created |-> FALSE, ipSeen |-> 0, lastNoField |-> FALSE, lastError |-> FALSE,
   wrote |-> FALSE]

CredSource(tokens, e) ==
  IF ~IsNull(tokens) /\ Truthy(Val(tokens).accessToken) THEN "stored"
  ELSE IF Truthy(e.envToken) \/ Truthy(e.envUserId) THEN "env"
  ELSE "none"

\* The stored credential is the one in use and its expiresAt is not in the
\* future.
StoredExpired(tokens, t) ==
  /\ ~IsNull(tokens)
  /\ Truthy(Val(tokens).accessToken)
  /\ ~IsNull(Val(tokens).expiresAt)
  /\ Expired(Val(Val(tokens).expiresAt), t)

\* A token and an account id are at hand, stored or from the environment.
Connected(tokens, e) ==
  IF ~IsNull(tokens) /\ Val(tokens).accessToken # ""
    THEN Val(tokens).userId # ""
    ELSE e.envToken # "" /\ e.envUserId # ""

StartHist ==
  [NoHist EXCEPT !.credSource = CredSource(instagramTokens, env),
                 !.credExpired = StoredExpired(instagramTokens, now),
                 !.connected = Connected(instagramTokens, env)]

\* The attempt ends and reports result r.
Finish(r) ==
  /\ pubPc' = "done"
  /\ pubResult' = r

\* dashboard.js:414-420: postToInstagram up to the pre-flight fetch.
EnterPostToInstagram ==
  LET creds == getInstagramCreds(instagramTokens, env) IN
  IF NotConnected(creds)
    THEN /\ Finish("NotConnected")
         /\ pubCreds' = Null
    ELSE /\ pubPc' = "head"
         /\ pubResult' = ""
         /\ pubCreds' = Some(creds)

\* dashboard.js:536-557: the request handler up to the first await.
PostHandler ==
  /\ pubPc \in {"idle", "done"}
  /\ pubEntry' = "handler"
  /\ \E i \in ImageIds : pubImageId' = i
  /\ calls' = NoCalls
  /\ pubHist' = StartHist
  /\ status' = ""
  /\ attempts' = 0
  /\ pubWrite' = Null
  /\ IF ~env.publicUrl
       THEN /\ Finish("NoPublicUrl")
            /\ pubCreds' = Null
       ELSE IF NotConnected(getInstagramCreds(instagramTokens, env))
         THEN /\ Finish("NotConnected")
              /\ pubCreds' = Null
         ELSE EnterPostToInstagram
  /\ UNCHANGED <<runVars, tokVars, reqVars, now, credVars, loadVars, galVars>>

\* dashboard.js:413: postToInstagram called by any other caller.
CallPostToInstagram ==
  /\ pubPc \in {"idle", "done"}
  /\ pubEntry' = "direct"
  /\ pubImageId' = 0
  /\ calls' = NoCalls
  /\ pubHist' = StartHist
  /\ status' = ""
  /\ attempts' = 0
  /\ pubWrite' = Null
  /\ EnterPostToInstagram
  /\ UNCHANGED <<runVars, tokVars, reqVars, now, credVars, loadVars, galVars>>

\* The answer to the HEAD request: status and content-type header, the
\* latter as <<type, subtype>> or <<>> when the header is missing.
HeadAnswers ==
  [status : {200, 204, 404, 500},
   contentType : {<<"image", "png">>, <<"text", "html">>, <<>>}]

\* Response.ok
HttpOk(code) == code >= 200 /\ code <= 299

\* dashboard.js:433: contentType.startsWith('image/')
IsImageType(ct) == Len(ct) >= 1 /\ ct[1] = "image"

\* PreflightError with the two tests in the opposite order.
PreflightError_TypeFirst(a) ==
  IF ~IsImageType(a.contentType) THEN "NotImageContentType"
  ELSE IF ~HttpOk(a.status)
    THEN IF a.status = 404 THEN "NotAccessible404" ELSE "NotAccessible"
  ELSE ""

\* dashboard.js:427-435: the error the pre-flight check raises, "" for none.
PreflightError(a) ==
  IF ~HttpOk(a.status)
    THEN IF a.status = 404 THEN "NotAccessible404" ELSE "NotAccessible"
  ELSE IF ~IsImageType(a.contentType) THEN "NotImageContentType"
  ELSE ""

\* dashboard.js:423-438, and 442 when the check passes.
Preflight ==
  /\ pubPc = "head"
  /\ calls' = [calls EXCEPT !.head = @ + 1]
  /\ \/ /\ Finish("ValidationFetchFailed")
        /\ UNCHANGED pubHist
     \/ \E a \in HeadAnswers :
          LET seen == Some([ok |-> HttpOk(a.status), image |-> IsImageType(a.contentType)]) IN
          IF PreflightError(a) # ""
            THEN /\ Finish(PreflightError(a))
                 /\ pubHist' = [pubHist EXCEPT !.headAnswer = seen]
            ELSE /\ pubPc' = "create"
                 /\ pubHist' = [pubHist EXCEPT !.headAnswer = seen, !.preflightOk = TRUE]
                 /\ UNCHANGED pubResult
  /\ UNCHANGED <<runVars, tokVars, reqVars, now, credVars, loadVars, galVars, pubEntry, pubImageId, pubCreds,
                 status, attempts, pubWrite>>

\* LoopContinues with the attempt bound off by one.
LoopContinues_OffByOne(st, n) == st = "IN_PROGRESS" /\ n <= maxAttempts

\* dashboard.js:467: the loop condition.
LoopContinues(st, n) == st = "IN_PROGRESS" /\ n < maxAttempts

\* dashboard.js:442-467: the container is created and the poll begins.
CreateContainer ==
  /\ pubPc = "create"
  /\ calls' = [calls EXCEPT !.create = @ + 1]
  /\ \/ /\ Finish("FetchFailed")
        /\ UNCHANGED <<status, attempts, pubHist>>
     \/ /\ Finish("UpstreamError")
        /\ UNCHANGED <<status, attempts, pubHist>>
     \/ /\ status' = "IN_PROGRESS"
        /\ attempts' = 0
        /\ pubHist' = [pubHist EXCEPT !.created = TRUE]
        /\ pubPc' = IF LoopContinues("IN_PROGRESS", 0) THEN "sleep" ELSE "after"
        /\ UNCHANGED pubResult
  /\ UNCHANGED <<runVars, tokVars, reqVars, now, credVars, loadVars, galVars, pubEntry, pubImageId, pubCreds, pubWrite>>

\* dashboard.js:468: the one-second wait.
Sleep ==
  /\ pubPc = "sleep"
  /\ calls' = [calls EXCEPT !.sleep = @ + 1]
  /\ pubPc' = "status"
  /\ UNCHANGED <<runVars, tokVars, reqVars, now, credVars, loadVars, galVars, pubEntry, pubImageId, pubCreds,
                 status, attempts, pubHist, pubResult, pubWrite>>

\* The answer to the container-status fetch: the two fields the code reads
\* ("" when missing) and whether the body is an error payload, which carries
\* neither field.
StatusAnswers ==
  {a \in [status_code : {"", "IN_PROGRESS", "FINISHED", "ERROR", "EXPIRED"},
          status      : {"", "IN_PROGRESS", "ERROR"},
          error       : BOOLEAN] :
     a.error => (a.status_code = "" /\ a.status = "")}

\* NextStatus without the final else: an answer without a status field leaves
\* the status as it was, which inside the loop is IN_PROGRESS.
NextStatus_NoFieldKeepsWaiting(a) ==
  IF Truthy(a.status_code) THEN a.status_code
  ELSE IF Truthy(a.status) THEN a.status
  ELSE "IN_PROGRESS"

\* dashboard.js:476-483
NextStatus(a) ==
  IF Truthy(a.status_code) THEN a.status_code
  ELSE IF Truthy(a.status) THEN a.status
  ELSE "FINISHED"

\* PollError without the test for ERROR.
PollError_ErrorIgnored(st) ==
  IF st = "IN_PROGRESS" THEN "Timeout" ELSE ""

\* dashboard.js:488-494: the error raised after the loop, "" for none.
PollError(st) ==
  IF st = "ERROR" THEN "ProcessingError"
  ELSE IF st = "IN_PROGRESS" THEN "Timeout"
  ELSE ""

\* dashboard.js:470-498: one status check, the loop test and, when the loop
\* ends, the checks after it.
CheckStatus ==
  /\ pubPc = "status"
  /\ calls' = [calls EXCEPT !.status = @ + 1]
  /\ \/ /\ Finish("FetchFailed")
        /\ UNCHANGED <<status, attempts, pubHist>>
     \/ \E a \in StatusAnswers :
          /\ status' = NextStatus(a)
          /\ attempts' = attempts + 1
          /\ pubHist' = [pubHist EXCEPT
                           !.ipSeen = IF NextStatus(a) = "IN_PROGRESS" THEN @ + 1 ELSE @,
                           !.lastNoField = ~Truthy(a.status_code) /\ ~Truthy(a.status),
                           !.lastError = a.error]
          /\ IF LoopContinues(NextStatus(a), attempts + 1)
               THEN /\ pubPc' = "sleep"
                    /\ UNCHANGED pubResult
               ELSE IF PollError(NextStatus(a)) # ""
                 THEN Finish(PollError(NextStatus(a)))
                 ELSE /\ pubPc' = "publish"
                      /\ UNCHANGED pubResult
  /\ UNCHANGED <<runVars, tokVars, reqVars, now, credVars, loadVars, galVars, pubEntry, pubImageId, pubCreds, pubWrite>>

\* dashboard.js:497-514, and 557-560 and 522 when the handler is the caller.
PublishMedia ==
  /\ pubPc = "publish"
  /\ calls' = [calls EXCEPT !.publish = @ + 1]
  /\ \/ /\ Finish("FetchFailed")
        /\ UNCHANGED publishedOk
     \/ /\ Finish("UpstreamError")
        /\ UNCHANGED publishedOk
     \/ /\ IF pubEntry = "handler"
             THEN /\ pubPc' = "markRead"
                  /\ publishedOk' = publishedOk \cup {pubImageId}
                  /\ UNCHANGED pubResult
             ELSE /\ Finish("ok")
                  /\ UNCHANGED publishedOk
  /\ UNCHANGED <<runVars, tokVars, reqVars, now, credVars, loadVars, galleryFile, pubEntry, pubImageId, pubCreds,
                 status, attempts, pubHist, pubWrite>>

\* dashboard.js:522-532: markAsPosted reads the document; with the record
\* found it starts the write, otherwise the handler answers at once (562).
MarkRead ==
  /\ pubPc = "markRead"
  /\ IF galleryFile.kind # "json"
       THEN \* readFile or JSON.parse throws: the handler answers 500
            /\ Finish("MarkFailed")
            /\ UNCHANGED pubWrite
       ELSE LET k == FindIndex(galleryFile.images, pubImageId) IN
            IF k = 0
              THEN /\ Finish("ok")
                   /\ UNCHANGED pubWrite
              ELSE /\ pubPc' = "markWrite"
                   /\ pubWrite' = Some(GalleryJson(MarkPosted(galleryFile.images, k, now)))
                   /\ UNCHANGED pubResult
  /\ UNCHANGED <<runVars, tokVars, reqVars, now, credVars, loadVars, galVars, pubEntry, pubImageId, pubCreds,
                 status, attempts, calls, pubHist>>

\* dashboard.js:529: fs.writeFile succeeds or throws.
MarkWrite ==
  /\ pubPc = "markWrite"
  /\ \/ /\ galleryFile' = Val(pubWrite)
        /\ pubHist' = [pubHist EXCEPT !.wrote = TRUE]
        /\ Finish("ok")
     \/ /\ Finish("MarkFailed")
        /\ UNCHANGED <<galleryFile, pubHist>>
  /\ pubWrite' = Null
  /\ UNCHANGED <<runVars, tokVars, reqVars, now, credVars, loadVars, publishedOk, pubEntry, pubImageId, pubCreds,
                 status, attempts, calls>>

(***************************************************************************)
(* Gallery requests of the dashboard and the driver's append.              *)
(*                                                                         *)
(* Every handler reads the whole document, changes the parsed copy and     *)
(* starts the write of the whole document before its next await, so the    *)
(* text it writes is fixed when its read resolves; the write lands later.  *)
(* The publish protocol that precedes markAsPosted does not touch the      *)
(* document, so here a post request is taken up where postToInstagram has  *)
(* returned and the handler calls markAsPosted.                            *)
(***************************************************************************)
\* Requests and driver runs started during a run of the model; any number of
\* them may be in flight together.
MaxRequests == 2

\* Slot s holds the s-th request or driver run, while it runs and after.
GSlots == 1..MaxRequests

\* Ids a gallery request may name: a stored record's, and one that no record
\* has unless a driver run stamps it.
RequestIds == {-1, 0}

\* Captions a caption request may carry: none, or a text.
Captions == {"", "c1"}

\* A gallery request: besides its inputs, position and snapshot,
\*   missing  history: its lookup found no record with its id
\*   noFile   history: the image file of its record was not there
IdleReq ==
  [kind |-> "none", id |-> 0, arg |-> "", pc |-> "idle", snap |-> Null,
   at |-> 0, result |-> "", wrote |-> FALSE, missing |-> FALSE, noFile |-> FALSE]

\* !image.favorited, where a missing field is falsy
NotFavorited(f) == IF IsNull(f) THEN TRUE ELSE ~Val(f)

\* ToggleFavorite setting the flag whatever it was.
ToggleFavorite_AlwaysTrue(imgs, k) ==
  [imgs EXCEPT ![k].favorited = Some(TRUE)]

\* dashboard.js:1971
ToggleFavorite(imgs, k) ==
  [imgs EXCEPT ![k].favorited = Some(NotFavorited(@))]

\* dashboard.js:1951
SetCaption(imgs, k, c) == [imgs EXCEPT ![k].caption = c]

\* dashboard.js:2005: galleryData.images.splice(imageIndex, 1)
RemoveAt(imgs, k) == SubSeq(imgs, 1, k - 1) \o SubSeq(imgs, k + 1, Len(imgs))

\* index.js:289-300: the parsed document, or an empty one when the file is
\* missing or does not parse.
loadGalleryData(file) == IF file.kind = "json" THEN file.images ELSE <<>>

\* The images a request of this kind writes, given the images it read and
\* the index of its record in them (unused by an append).
Mutate(kind, imgs, k, id, arg, t) ==
  CASE kind = "favorite"   -> ToggleFavorite(imgs, k)
    [] kind = "caption"    -> SetCaption(imgs, k, arg)
    [] kind = "markPosted" -> MarkPosted(imgs, k, t)
    [] kind = "delete"     -> RemoveAt(imgs, k)
    [] kind = "append"     -> Append(imgs, NewImage(id))

\* WrittenText merging the change into the document as it is on disk when
\* the write is issued.
WrittenText_Merged(kind, snapImgs, diskImgs, id, arg, t) ==
  IF kind # "append" /\ FindIndex(diskImgs, id) = 0
    THEN GalleryJson(diskImgs)
    ELSE GalleryJson(Mutate(kind, diskImgs, FindIndex(diskImgs, id), id, arg, t))

\* The text a request writes: the images it read, with its change applied.
\* What is on disk when the write is issued plays no part.
WrittenText(kind, snapImgs, diskImgs, id, arg, t) ==
  GalleryJson(Mutate(kind, snapImgs, FindIndex(snapImgs, id), id, arg, t))

CanStart(s) ==
  /\ s = gCount + 1
  /\ gReq[s].pc = "idle"

\* The request in slot s ends with result r.
Answer(s, req, r) ==
  gReq' = [gReq EXCEPT ![s] = [req EXCEPT !.pc = "done", !.result = r]]

\* The read of a handler that looks its record up by id: readFile or
\* JSON.parse throws (500), the record is missing (404), or the changed
\* document goes to pc next.
LookupRead(s, kind, id, arg, next) ==
  LET req == [IdleReq EXCEPT !.kind = kind, !.id = id, !.arg = arg] IN
  IF galleryFile.kind # "json"
    THEN Answer(s, req, "ioError")
    ELSE IF FindIndex(galleryFile.images, id) = 0
      THEN Answer(s, [req EXCEPT !.missing = TRUE],
                  IF kind = "markPosted" THEN "ok" ELSE "notFound")
      ELSE gReq' = [gReq EXCEPT ![s] =
                      [req EXCEPT !.pc = next, !.snap = Some(galleryFile.images),
                                  !.at = now]]

\* dashboard.js:1963-1972: POST /api/favorite/:id up to its write.
FavoriteRead(s) ==
  /\ CanStart(s)
  /\ \E id \in RequestIds : LookupRead(s, "favorite", id, "", "write")
  /\ gCount' = gCount + 1
  /\ UNCHANGED <<runVars, tokVars, now, credVars, loadVars, galVars, pubVars, imageFiles, lastWrite>>

\* dashboard.js:1936-1952: PUT /api/caption/:id up to its write.
CaptionRead(s) ==
  /\ CanStart(s)
  /\ \E id \in RequestIds, c \in Captions :
       IF ~Truthy(c)
         THEN Answer(s, [IdleReq EXCEPT !.kind = "caption", !.id = id], "badRequest")
         ELSE LookupRead(s, "caption", id, c, "write")
  /\ gCount' = gCount + 1
  /\ UNCHANGED <<runVars, tokVars, now, credVars, loadVars, galVars, pubVars, imageFiles, lastWrite>>

\* dashboard.js:557-560 and 520-529: postToInstagram has returned for this
\* image id and markAsPosted runs up to its write.
MarkAsPostedRead(s) ==
  /\ CanStart(s)
  /\ \E id \in RequestIds :
       /\ LookupRead(s, "markPosted", id, "", "write")
       /\ publishedOk' = publishedOk \cup {id}
  /\ gCount' = gCount + 1
  /\ UNCHANGED <<runVars, tokVars, now, credVars, loadVars, galleryFile, pubVars, imageFiles, lastWrite>>

\* dashboard.js:1984-1999: DELETE /api/image/:id up to fs.pathExists.
DeleteRead(s) ==
  /\ CanStart(s)
  /\ \E id \in RequestIds : LookupRead(s, "delete", id, "", "exists")
  /\ gCount' = gCount + 1
  /\ UNCHANGED <<runVars, tokVars, now, credVars, loadVars, galVars, pubVars, imageFiles, lastWrite>>

\* DeleteFile answering an error when the image file is not there.
DeleteFile_MissingFileFails(s) ==
  /\ gReq[s].pc \in {"exists", "remove"}
  /\ IF gReq[s].pc = "exists" /\ gReq[s].id \in imageFiles
       THEN /\ gReq' = [gReq EXCEPT ![s].pc = "remove"]
            /\ UNCHANGED imageFiles
       ELSE /\ gReq' = [gReq EXCEPT ![s].pc = IF gReq[s].pc = "exists"
                                                THEN "done" ELSE "write",
                                    ![s].result = IF gReq[s].pc = "exists"
                                                    THEN "notFound" ELSE "",
                                    ![s].noFile = (gReq[s].pc = "exists")]
            /\ imageFiles' = imageFiles \ {gReq[s].id}
  /\ UNCHANGED <<runVars, tokVars, now, credVars, loadVars, galVars, pubVars, gCount, lastWrite>>

\* dashboard.js:2000-2002: the image file is there and is removed, or it is
\* not and the handler goes on.
DeleteFile(s) ==
  /\ gReq[s].pc \in {"exists", "remove"}
  /\ IF gReq[s].pc = "exists" /\ gReq[s].id \in imageFiles
       THEN /\ gReq' = [gReq EXCEPT ![s].pc = "remove"]
            /\ UNCHANGED imageFiles
       ELSE /\ gReq' = [gReq EXCEPT ![s].pc = "write",
                                    ![s].noFile = (gReq[s].pc = "exists")]
            /\ imageFiles' = imageFiles \ {gReq[s].id}
  /\ UNCHANGED <<runVars, tokVars, now, credVars, loadVars, galVars, pubVars, gCount, lastWrite>>

\* index.js:433-440, part_000:750-758: the driver has generated an image,
\* takes Date.now() as its id and saves the file.
DriverStamp(s) ==
  /\ CanStart(s)
  /\ gReq' = [gReq EXCEPT ![s] = [IdleReq EXCEPT !.kind = "append", !.id = now, !.pc = "load"]]
  /\ imageFiles' = imageFiles \cup {now}
  /\ gCount' = gCount + 1
  /\ UNCHANGED <<runVars, tokVars, now, credVars, loadVars, galVars, pubVars, lastWrite>>

\* The driver reads the document (a missing or unparseable one counts as
\* empty) and pushes its record.
DriverLoad(s) ==
  /\ gReq[s].pc = "load"
  /\ gReq' = [gReq EXCEPT ![s].pc = "write",
                          ![s].snap = Some(loadGalleryData(galleryFile))]
  /\ UNCHANGED <<runVars, tokVars, now, credVars, loadVars, galVars, pubVars, imageFiles, gCount, lastWrite>>

\* fs.writeFile of the document lands, or throws (500 for a handler of the
\* dashboard).
GalleryWrite(s) ==
  /\ gReq[s].pc = "write"
  /\ LET req == gReq[s]
         text == WrittenText(req.kind, Val(req.snap), loadGalleryData(galleryFile),
                             req.id, req.arg, req.at) IN
     \/ /\ galleryFile' = text
        /\ lastWrite' = Some([slot |-> s, kind |-> req.kind, id |-> req.id,
                              arg |-> req.arg, snap |-> Val(req.snap), at |-> req.at])
        /\ Answer(s, [req EXCEPT !.wrote = TRUE], "ok")
     \/ /\ Answer(s, req, "ioError")
        /\ UNCHANGED <<galleryFile, lastWrite>>
  /\ UNCHANGED <<runVars, tokVars, now, credVars, loadVars, publishedOk, pubVars, imageFiles, gCount>>

(***************************************************************************)
(* Credential requests: the OAuth callback, the manual token paste, the    *)
(* disconnect and the status read.                                         *)
(*                                                                         *)
(* The platform is the environment.  What it knows is the list of the      *)
(* user's Pages; every call may also throw (fetch or response.json()       *)
(* rejects) or answer an error payload.  The code never tests response.ok, *)
(* so the HTTP status of an answer plays no part.  A call made with a      *)
(* missing token is never answered with data.                              *)
(***************************************************************************)
\* Credential requests made during a run of the model, one after the other.
MaxTokenRequests == 2

TSlots == 1..MaxTokenRequests

\* dashboard.js:183 and 203: the Page the manual paste asks for.
FixedPageId == "1022163574308658"
\* dashboard.js:201
FallbackUserId == "17841472995664251"
\* dashboard.js:202
FallbackUsername == "silkpath.co"

PageIds == {FixedPageId, "pageB"}

\* A Page as the platform describes it: its id and whether an Instagram
\* business or creator account is linked to it.
Pages == [id : PageIds, linked : BOOLEAN]

\* The lists of Pages the platform may hold for the user: none, one, or two
\* different ones in either order.
PageLists ==
  {<<>>} \cup {<<p>> : p \in Pages}
         \cup {pq \in Pages \X Pages : pq[1].id # pq[2].id}

\* page.access_token (dashboard.js:192, 341)
PageToken(p) == IF p.id = FixedPageId THEN "ptFixed" ELSE "ptB"

\* instagram_business_account.id (dashboard.js:201, 337)
AccountId(p) == IF p.id = FixedPageId THEN "igFixed" ELSE "igB"

\* The username of the linked account (dashboard.js:202, 338)
AccountName(p) == IF p.id = FixedPageId THEN "nameFixed" ELSE "nameB"

HasFixedPage(ps) == \E k \in 1..Len(ps) : ps[k].id = FixedPageId

TheFixedPage(ps) == ps[CHOOSE k \in 1..Len(ps) : ps[k].id = FixedPageId]

\* Date.now() + 60 * 24 * 60 * 60 * 1000 (dashboard.js:204, 358)
NewExpiry(t) == Some(t + TokenLifetimeDays * HoursPerDay)

\* PasteTokens taking the fallback account whether or not one is linked.
PasteTokens_AlwaysFallback(page, withToken, t) ==
  [accessToken |-> IF withToken THEN PageToken(page) ELSE "",
   userId      |-> FallbackUserId,
   username    |-> FallbackUsername,
   pageId      |-> FixedPageId,
   expiresAt   |-> NewExpiry(t)]

\* dashboard.js:192-205: the record refreshInstagramToken assembles from the
\* answer for the fixed Page, which carried access_token or did not.
PasteTokens(page, withToken, t) ==
  [accessToken |-> IF withToken THEN PageToken(page) ELSE "",
   userId      |-> IF page.linked THEN AccountId(page) ELSE FallbackUserId,
   username    |-> IF page.linked THEN AccountName(page) ELSE FallbackUsername,
   pageId      |-> FixedPageId,
   expiresAt   |-> NewExpiry(t)]

\* CallbackTokens storing the user token the lookups were made with.
CallbackTokens_UserToken(page, userToken, acctId, username, t) ==
  [accessToken |-> userToken,
   userId      |-> acctId,
   username    |-> username,
   pageId      |-> page.id,
   expiresAt   |-> NewExpiry(t)]

\* dashboard.js:336-342 and 352-359: the record the callback assembles from
\* the Page its loop stopped at.  pageName, a display string, is left out.
CallbackTokens(page, userToken, acctId, username, t) ==
  [accessToken |-> PageToken(page),
   userId      |-> acctId,
   username    |-> username,
   pageId      |-> page.id,
   expiresAt   |-> NewExpiry(t)]

\* A credential request: its kind and position, the locals of its handler
\* and what it has seen.
\*   short    shortLivedToken of the callback
\*   token    longLivedUserToken of the paste, accessToken of the callback
\*   idx      the Page the callback's loop is at
\*   tokens   the record handed to saveTokens
\*   errorAt  history: the first call that answered an error payload
\*   clean    history: no call threw or answered an error payload and no
\*            file operation failed
\*   creds    what getInstagramCreds returned to the status read
\*   before   history: the credential in memory and on file at the start
IdleTok ==
  [kind |-> "none", pc |-> "idle", short |-> "", token |-> "", idx |-> 0,
   tokens |-> Null, result |-> "", errorAt |-> "", clean |-> TRUE,
   creds |-> Null, before |-> [mem |-> Null, file |-> FileAbsent]]

\* Slot s takes the next request once the requests before it have ended.
CanStartTok(s) ==
  /\ s = tCount + 1
  /\ tReq[s].pc = "idle"
  /\ \A u \in 1..(s - 1) : tReq[u].pc = "done"

\* The request as its handler is entered.
BeginTok(kind) ==
  [IdleTok EXCEPT !.kind = kind,
                  !.before = [mem |-> instagramTokens, file |-> tokensFile]]

\* The request ends with result r; the locals of its handler are gone.
EndTok(req, r) ==
  [req EXCEPT !.pc = "done", !.result = r, !.short = "", !.token = "", !.idx = 0]

\* The request ends with an error: r, raised at a call that threw or
\* answered an error payload, or by a failed file operation.
FailTok(req, r) == [EndTok(req, r) EXCEPT !.clean = FALSE]

\* The request has seen an error payload at this call.
FirstError(req, call) == IF req.errorAt = "" THEN call ELSE req.errorAt

SawError(req, call) == [req EXCEPT !.errorAt = FirstError(req, call)]

\* What a call made with this token may answer.
CallAnswers(token) ==
  IF Truthy(token) THEN {"throw", "error", "ok"} ELSE {"throw", "error"}

\* What a credential request leaves alone.
TokFrame == UNCHANGED <<now, env, loadVars, galVars, pubVars, reqVars, pages, runVars>>

\* dashboard.js:138-139: saveTokens replaces the credential in memory and
\* starts the write of the file; the text written is fixed here.
SaveTokens(s, req, tokens) ==
  /\ instagramTokens' = Some(tokens)
  /\ tReq' = [tReq EXCEPT ![s] = [req EXCEPT !.tokens = Some(tokens), !.pc = "write"]]

\* dashboard.js:269-290: GET /auth/instagram/callback up to the code exchange.
CallbackStart(s) ==
  /\ CanStartTok(s)
  /\ \E q \in {"error", "none", "code"} :
       tReq' = [tReq EXCEPT ![s] =
                  CASE q = "error" -> EndTok(BeginTok("callback"), "AuthorizationError")
                    [] q = "none"  -> EndTok(BeginTok("callback"), "NoCode")
                    [] q = "code"  -> [BeginTok("callback") EXCEPT !.pc = "cbToken"]]
  /\ tCount' = tCount + 1
  /\ UNCHANGED credVars
  /\ TokFrame

\* dashboard.js:290-306: the code exchange answers; an error payload is
\* raised, anything else goes on to the long-lived exchange.
CallbackCode(s) ==
  /\ tReq[s].pc = "cbToken"
  /\ LET req == tReq[s] IN
     \E a \in {"throw", "error", "ok"} :
       tReq' = [tReq EXCEPT ![s] =
                  CASE a = "throw" -> FailTok(req, "FetchFailed")
                    [] a = "error" -> FailTok(SawError(req, "code"), "Upstream")
                    [] a = "ok"    -> [req EXCEPT !.short = "short", !.pc = "cbLong"]]
  /\ UNCHANGED <<credVars, tCount>>
  /\ TokFrame

\* dashboard.js:306-315: the long-lived exchange answers.  Its error field is
\* not tested: an answer without access_token leaves the short-lived token
\* in use.
CallbackLong(s) ==
  /\ tReq[s].pc = "cbLong"
  /\ LET req == tReq[s] IN
     \E a \in CallAnswers(req.short) :
       tReq' = [tReq EXCEPT ![s] =
                  CASE a = "throw" -> FailTok(req, "FetchFailed")
                    [] a = "error" -> [req EXCEPT !.token = req.short, !.pc = "cbPages",
                                                  !.errorAt = FirstError(req, "long"),
                                                  !.clean = FALSE]
                    [] a = "ok"    -> [req EXCEPT !.token = "long", !.pc = "cbPages"]]
  /\ UNCHANGED <<credVars, tCount>>
  /\ TokFrame

\* dashboard.js:315-327: the Pages listing answers.  An error payload has no
\* data field and counts as an empty list.
CallbackPages(s) ==
  /\ tReq[s].pc = "cbPages"
  /\ LET req == tReq[s] IN
     \E a \in CallAnswers(req.token) :
       tReq' = [tReq EXCEPT ![s] =
                  CASE a = "throw" -> FailTok(req, "FetchFailed")
                    [] a = "error" -> FailTok(SawError(req, "pages"),
                                              "NoPages")
                    [] a = "ok"    -> IF Len(pages) = 0
                                        THEN EndTok(req, "NoPages")
                                        ELSE [req EXCEPT !.idx = 1, !.pc = "cbIg"]]
  /\ UNCHANGED <<credVars, tCount>>
  /\ TokFrame

\* dashboard.js:323-327 and 347-349: the loop moves to the next Page, or has
\* run out of Pages without finding a linked account.
NextPage(req) ==
  IF req.idx < Len(pages)
    THEN [req EXCEPT !.idx = req.idx + 1]
    ELSE EndTok(req, "NoAccount")

\* dashboard.js:327-334: the linked-account lookup of the current Page
\* answers.  An error payload has no instagram_business_account field and
\* counts as a Page without a linked account.
CallbackAccount(s) ==
  /\ tReq[s].pc = "cbIg"
  /\ LET req == tReq[s] IN
     \E a \in CallAnswers(req.token) :
       tReq' = [tReq EXCEPT ![s] =
                  CASE a = "throw" -> FailTok(req, "FetchFailed")
                    [] a = "error" -> NextPage([SawError(req, "account") EXCEPT
                                                           !.clean = FALSE])
                    [] a = "ok"    -> IF pages[req.idx].linked
                                        THEN [req EXCEPT !.pc = "cbInfo"]
                                        ELSE NextPage(req)]
  /\ UNCHANGED <<credVars, tCount>>
  /\ TokFrame

\* dashboard.js:334-359: the username lookup answers, the loop breaks and
\* the record is handed to saveTokens.  An error payload has no username
\* field.
CallbackUsername(s) ==
  /\ tReq[s].pc = "cbInfo"
  /\ LET req == tReq[s]
         page == pages[req.idx] IN
     \E a \in CallAnswers(req.token) :
       CASE a = "throw" ->
              /\ tReq' = [tReq EXCEPT ![s] = FailTok(req, "FetchFailed")]
              /\ UNCHANGED instagramTokens
         [] a = "error" ->
              SaveTokens(s, [SawError(req, "username") EXCEPT !.clean = FALSE],
                         CallbackTokens(page, req.token, AccountId(page), "", now))
         [] a = "ok" ->
              SaveTokens(s, req,
                         CallbackTokens(page, req.token, AccountId(page),
                                        AccountName(page), now))
  /\ UNCHANGED <<env, tokensFile, tCount>>
  /\ TokFrame

\* dashboard.js:217-225 and 163-172: POST /api/refresh-token up to the
\* long-lived exchange of refreshInstagramToken.
PasteStart(s) ==
  /\ CanStartTok(s)
  /\ \E token \in {"", "pasted"} :
       tReq' = [tReq EXCEPT ![s] =
                  IF ~Truthy(token)
                    THEN EndTok(BeginTok("paste"), "TokenRequired")
                    ELSE [BeginTok("paste") EXCEPT !.short = token, !.pc = "rtLong"]]
  /\ tCount' = tCount + 1
  /\ UNCHANGED credVars
  /\ TokFrame

\* dashboard.js:172-185: the long-lived exchange answers; an error payload is
\* raised, anything else goes on to the lookup of the fixed Page.
PasteLong(s) ==
  /\ tReq[s].pc = "rtLong"
  /\ LET req == tReq[s] IN
     \E a \in CallAnswers(req.short) :
       tReq' = [tReq EXCEPT ![s] =
                  CASE a = "throw" -> FailTok(req, "FetchFailed")
                    [] a = "error" -> FailTok(SawError(req, "long"), "Upstream")
                    [] a = "ok"    -> [req EXCEPT !.token = "long", !.pc = "rtPage"]]
  /\ UNCHANGED <<credVars, tCount>>
  /\ TokFrame

\* What the lookup of the fixed Page may answer: data only when the Page is
\* one of the user's.
\* The data may lack access_token ("noToken").
FixedPageAnswers(token) ==
  IF HasFixedPage(pages) /\ Truthy(token)
    THEN {"throw", "error", "ok", "noToken"}
    ELSE {"throw", "error"}

\* dashboard.js:185-207: the lookup of the fixed Page answers and the record
\* is handed to saveTokens.
PastePage(s) ==
  /\ tReq[s].pc = "rtPage"
  /\ LET req == tReq[s] IN
     \E a \in FixedPageAnswers(req.token) :
       CASE a = "throw" ->
              /\ tReq' = [tReq EXCEPT ![s] = FailTok(req, "FetchFailed")]
              /\ UNCHANGED instagramTokens
         [] a = "error" ->
              \* for a Page that is not the user's this is the platform's
              \* regular answer
              /\ tReq' = [tReq EXCEPT ![s] =
                            IF HasFixedPage(pages)
                              THEN FailTok(SawError(req, "page"), "Upstream")
                              ELSE EndTok(SawError(req, "page"), "Upstream")]
              /\ UNCHANGED instagramTokens
         [] a = "ok" ->
              SaveTokens(s, req, PasteTokens(TheFixedPage(pages), TRUE, now))
         [] a = "noToken" ->
              SaveTokens(s, [req EXCEPT !.clean = FALSE],
                         PasteTokens(TheFixedPage(pages), FALSE, now))
  /\ UNCHANGED <<env, tokensFile, tCount>>
  /\ TokFrame

\* dashboard.js:140: fs.writeFile of the credential file lands, or throws and
\* the request reports the error (dashboard.js:227-229, 385-392).
TokensWrite(s) ==
  /\ tReq[s].pc = "write"
  /\ LET req == tReq[s] IN
     \/ /\ tokensFile' = FileJson(Val(req.tokens))
        /\ tReq' = [tReq EXCEPT ![s] = EndTok(req, "ok")]
     \/ /\ tReq' = [tReq EXCEPT ![s] = FailTok(req, "WriteFailed")]
        /\ UNCHANGED tokensFile
  /\ UNCHANGED <<env, instagramTokens, tCount>>
  /\ TokFrame

\* dashboard.js:398-400: POST /auth/instagram/disconnect up to fs.pathExists.
DisconnectStart(s) ==
  /\ CanStartTok(s)
  /\ tReq' = [tReq EXCEPT ![s] = [BeginTok("disconnect") EXCEPT !.pc = "dcExists"]]
  /\ tCount' = tCount + 1
  /\ UNCHANGED credVars
  /\ TokFrame

\* dashboard.js:400-404: the file is there and its removal starts, or it is
\* not and the credential in memory is unset.
DisconnectExists(s) ==
  /\ tReq[s].pc = "dcExists"
  /\ IF tokensFile.kind # "absent"
       THEN /\ tReq' = [tReq EXCEPT ![s].pc = "dcRemove"]
            /\ UNCHANGED instagramTokens
       ELSE /\ tReq' = [tReq EXCEPT ![s] = EndTok(tReq[s], "ok")]
            /\ instagramTokens' = Null
  /\ UNCHANGED <<env, tokensFile, tCount>>
  /\ TokFrame

\* dashboard.js:401-407: fs.remove succeeds and the credential in memory is
\* unset, or it throws and the request reports the error.
DisconnectRemove(s) ==
  /\ tReq[s].pc = "dcRemove"
  /\ \/ /\ tokensFile' = FileAbsent
        /\ instagramTokens' = Null
        /\ tReq' = [tReq EXCEPT ![s] = EndTok(tReq[s], "ok")]
     \/ /\ tReq' = [tReq EXCEPT ![s] = FailTok(tReq[s], "RemoveFailed")]
        /\ UNCHANGED <<tokensFile, instagramTokens>>
  /\ UNCHANGED <<env, tCount>>
  /\ TokFrame

\* dashboard.js:570-579: GET /api/instagram-status reads the current
\* credentials.
InstagramStatus(s) ==
  /\ CanStartTok(s)
  /\ tReq' = [tReq EXCEPT ![s] =
                EndTok([BeginTok("status") EXCEPT
                          !.creds = Some(getInstagramCreds(instagramTokens, env))],
                       "ok")]
  /\ tCount' = tCount + 1
  /\ UNCHANGED credVars
  /\ TokFrame

(***************************************************************************)
(* A run of the generation driver (main of the driver script).             *)
(*                                                                         *)
(* In color mode the run generates one image; in hijab-folder mode it      *)
(* walks the images of the folder.  Every await of main is a step.         *)
(***************************************************************************)
\* Images in the hijab folder of a run.
MaxImages == 2

\* part_000:700-701 and 740: color mode when a color is given, hijab-folder
\* mode otherwise.
DriverModes == {"color", "hijab"}

\* The run of the driver:
\*   left       images still to be processed, the current one included
\*   id, snap   timestamp and freshGallery.images of the current image
\*   generated  history: calls of generateImage that returned an image
\*   failed     history: calls of generateImage that threw
\*   appended   history: records written to the gallery document
\*   exit       the exit status, "" while the run goes on
IdleDrv ==
  [mode |-> "", pc |-> "setup", left |-> 0, id |-> 0, snap |-> Null,
   generated |-> 0, failed |-> 0, appended |-> 0, exit |-> ""]


\* part_000:751 and 789-792: the loop goes to the next image, and main
\* returns after the last one.
NextImage(d) ==
  IF d.left > 1
    THEN [d EXCEPT !.left = @ - 1, !.pc = "generate"]
    ELSE [d EXCEPT !.left = 0, !.pc = "done", !.exit = "exit0"]

\* A step of the generation threw.  Color mode logs and rethrows
\* (part_000:736-739), which ends in process.exit(1) (793-796); the loop of
\* hijab-folder mode logs and goes on (785-788).
Caught(d) ==
  IF d.mode = "color"
    THEN [d EXCEPT !.pc = "done", !.exit = "exit1"]
    ELSE NextImage(d)

DrvFrame == UNCHANGED <<credVars, loadVars, publishedOk, pubVars, gReq, gCount,
                        lastWrite, tokVars, gen, promptFile>>

\* part_000:662-689 and 742-746: the API key, the style images and, in
\* hijab-folder mode, the hijab images are there, or main throws.
MainSetup ==
  /\ drv.pc = "setup"
  /\ \E mode \in DriverModes, n \in 1..MaxImages, ok \in BOOLEAN :
       /\ mode = "color" => n = 1
       /\ drv' = IF ok
                   THEN [drv EXCEPT !.mode = mode, !.left = n, !.pc = "generate"]
                   ELSE [drv EXCEPT !.mode = mode, !.pc = "done", !.exit = "exit1"]
  /\ UNCHANGED <<now, galleryFile, imageFiles>>
  /\ DrvFrame

\* part_000:706-715 and 753-761: generateImage returns an image, which is
\* saved under the timestamp, or throws.
MainGenerate ==
  /\ drv.pc = "generate"
  /\ \/ /\ drv' = [drv EXCEPT !.id = now, !.generated = @ + 1, !.pc = "load"]
        /\ imageFiles' = imageFiles \cup {now}
     \/ /\ drv' = Caught([drv EXCEPT !.failed = @ + 1])
        /\ UNCHANGED imageFiles
  /\ UNCHANGED <<now, galleryFile>>
  /\ DrvFrame

\* part_000:726 and 772: the gallery document is read again.
MainLoad ==
  /\ drv.pc = "load"
  /\ drv' = [drv EXCEPT !.snap = Some(loadGalleryData(galleryFile)), !.pc = "save"]
  /\ UNCHANGED <<now, galleryFile, imageFiles>>
  /\ DrvFrame

\* part_000:727-735 and 773-781: the record is pushed and the document
\* written, or the write throws.
MainSave ==
  /\ drv.pc = "save"
  /\ LET d == [drv EXCEPT !.snap = Null] IN
     \/ /\ galleryFile' = GalleryJson(Append(Val(drv.snap), NewImage(drv.id)))
        /\ drv' = IF drv.mode = "color"
                    THEN [d EXCEPT !.appended = @ + 1, !.left = 0,
                                   !.pc = "done", !.exit = "exit0"]
                    ELSE [d EXCEPT !.appended = @ + 1, !.pc = "delay"]
     \/ /\ drv' = Caught(d)
        /\ UNCHANGED galleryFile
  /\ UNCHANGED <<now, imageFiles>>
  /\ DrvFrame

\* part_000:783-784: the pause between two images; the clock has moved on
\* when it ends.
MainDelay ==
  /\ drv.pc = "delay"
  /\ now' = now + 1
  /\ drv' = NextImage(drv)
  /\ UNCHANGED <<galleryFile, imageFiles>>
  /\ DrvFrame

(***************************************************************************)
(* POST /api/generate and the argument list it hands to the driver.        *)
(*                                                                         *)
(* A string is the sequence of its pieces: "--" where it starts with the   *)
(* flag prefix, single spaces, and runs of other characters.  The empty    *)
(* sequence is the empty or missing string, which JavaScript takes as      *)
(* false alike.                                                            *)
(***************************************************************************)
\* Generate requests made during a run of the model, one after the other.
MaxGenerates == 2

\* dashboard.js:1859: the most driver runs of one request
MaxRuns == 10

\* dashboard.js:1895: the most prompts kept
HistoryLimit == 10

\* '--name'
Flag(name) == <<"--", name>>

\* a.startsWith('--') (part_000:189)
StartsWithDashes(a) == a # <<>> /\ Head(a) = "--"

RECURSIVE Trim(_)
\* String.prototype.trim: whitespace goes from both ends.
Trim(s) ==
  IF s = <<>> THEN s
  ELSE IF Head(s) = " " THEN Trim(Tail(s))
  ELSE IF s[Len(s)] = " " THEN Trim(SubSeq(s, 1, Len(s) - 1))
  ELSE s

\* dashboard.js:1868
Random == <<"__random__">>

\* Prompts a request may carry: none, a blank one, texts with and without
\* surrounding blanks, and one that is in a full history.
Prompts == {<<>>, <<" ">>, <<"a">>, <<" ", "a", " ">>, <<"b">>, <<"9">>}

\* req.body.count after parseInt(count, 10): not a number (Null) or an integer.
Counts == {Null, Some(0), Some(-1), Some(2), Some(11)}

\* req.body.styleImages: not an array, or an array of file names.
StyleLists == {Null, Some(<<>>), Some(<< <<"s1">> >>), Some(<< <<"s1">>, <<"s2">> >>)}

\* req.body of POST /api/generate (dashboard.js:1857).
Bodies ==
  [hijabFolder : {<<>>, Random, <<"F">>},
   color       : {<<>>, <<"red">>},
   provider    : {<<>>, <<"openai">>},
   amazon      : BOOLEAN,
   caption     : BOOLEAN,
   model       : {<<>>, <<"m">>},
   prompt      : {<<>>, <<" ">>, <<" ", "a", " ">>},
   styleImages : StyleLists,
   count       : {Null}]

\* The bodies of the requests whose runs and prompt history are followed:
\* the fields that only add arguments are left out.
RunBodies ==
  [hijabFolder : {<<>>, <<"F">>},
   color       : {<<>>},
   provider    : {<<>>},
   amazon      : {FALSE},
   caption     : {FALSE},
   model       : {<<>>},
   prompt      : Prompts,
   styleImages : {Null},
   count       : Counts]

\* RunCount without the upper limit.
RunCount_NoCap(count) ==
  LET n == IF IsNull(count) \/ Val(count) = 0 THEN 1 ELSE Val(count) IN
  IF n < 1 THEN 1 ELSE n

\* dashboard.js:1859: Math.min(Math.max(parseInt(count, 10) || 1, 1), 10)
RunCount(count) ==
  LET n == IF IsNull(count) \/ Val(count) = 0 THEN 1 ELSE Val(count)
      m == IF n < 1 THEN 1 ELSE n IN
  IF m > MaxRuns THEN MaxRuns ELSE m

RECURSIVE StyleArgs(_)
\* dashboard.js:1887-1889
StyleArgs(imgs) ==
  IF imgs = <<>> THEN <<>>
  ELSE <<Flag("style"), Head(imgs)>> \o StyleArgs(Tail(imgs))

\* dashboard.js:1865-1890: the argument list of the driver.
BuildArgs(b) ==
  (IF b.color # <<>> THEN <<Flag("color"), b.color>>
   ELSE IF b.hijabFolder # <<>> /\ b.hijabFolder # Random
     THEN <<Flag("hijab"), b.hijabFolder>>
     ELSE <<>>)
  \o (IF b.provider # <<>> THEN <<Flag("provider"), b.provider>> ELSE <<>>)
  \o (IF b.amazon THEN <<Flag("amazon")>> ELSE <<>>)
  \o (IF b.caption THEN <<Flag("caption")>> ELSE <<>>)
  \o (IF b.model # <<>> THEN <<Flag("model"), b.model>> ELSE <<>>)
  \o (IF b.prompt # <<>> THEN <<Flag("prompt"), b.prompt>> ELSE <<>>)
  \o (IF IsNull(b.styleImages) THEN <<>> ELSE StyleArgs(Val(b.styleImages)))

\* part_000:166-172
ParseDefaults ==
  [hijabFolder |-> <<>>, provider |-> <<"gemini">>, amazon |-> FALSE,
   color |-> <<>>, caption |-> FALSE]

RECURSIVE ParseFrom(_, _, _)
\* part_000:174-192: the loop of parseArgs from index i on.
ParseFrom(args, i, result) ==
  IF i > Len(args) THEN result
  ELSE LET a == args[i]
           hasNext == i + 1 <= Len(args) /\ args[i + 1] # <<>> IN
       IF a = Flag("hijab") /\ hasNext
         THEN ParseFrom(args, i + 2, [result EXCEPT !.hijabFolder = args[i + 1]])
       ELSE IF a = Flag("provider") /\ hasNext
         THEN ParseFrom(args, i + 2, [result EXCEPT !.provider = args[i + 1]])
       ELSE IF a = Flag("amazon")
         THEN ParseFrom(args, i + 1, [result EXCEPT !.amazon = TRUE])
       ELSE IF a = Flag("color") /\ hasNext
         THEN ParseFrom(args, i + 2, [result EXCEPT !.color = args[i + 1]])
       ELSE IF a = Flag("caption")
         THEN ParseFrom(args, i + 1, [result EXCEPT !.caption = TRUE])
       ELSE IF ~StartsWithDashes(a)
         THEN ParseFrom(args, i + 1, [result EXCEPT !.hijabFolder = a])
       ELSE ParseFrom(args, i + 1, result)

\* part_000:164-203: parseArgs, with process.env.HIJAB_FOLDER as envFolder.
\* IMAGE_PROVIDER of the environment (198-200) is left out.
parseArgs(args, envFolder) ==
  LET result == ParseFrom(args, 1, ParseDefaults) IN
  IF result.hijabFolder = <<>> /\ envFolder # <<>>
    THEN [result EXCEPT !.hijabFolder = envFolder]
    ELSE result

\* The prompt history on disk: no file, or the list.
HistoryFile(list) == [kind |-> "json", list |-> list]

\* dashboard.js:54-65: the stored list; a missing file and any error of the
\* read give the empty list.
loadPromptHistory(file, readOk) ==
  IF readOk /\ file.kind = "json" THEN file.list ELSE <<>>

\* NextHistory keeping the earlier entries equal to the new prompt.
NextHistory_NoFilter(normalized, history) ==
  LET all == <<normalized>> \o history IN
  SubSeq(all, 1, IF Len(all) > HistoryLimit THEN HistoryLimit ELSE Len(all))

\* dashboard.js:1895
NextHistory(normalized, history) ==
  LET Other(q) == q # normalized
      all == <<normalized>> \o SelectSeq(history, Other) IN
  SubSeq(all, 1, IF Len(all) > HistoryLimit THEN HistoryLimit ELSE Len(all))

\* The request in flight:
\*   args, runCount, next  locals of the handler
\*   started, active       history: driver processes started, and running now
\*   errors                history: driver runs that ended with an error
\*   parsed                what parseArgs of the driver made of args
\*   before                history: the prompt history when the request came
\* and history of all requests so far:
\*   served     requests started
\*   submitted  the last prompt submitted that was not blank, trimmed
\*   saved      the same, of the last request that wrote the history
IdleGen ==
  [pc |-> "idle", body |-> Null, args |-> <<>>, runCount |-> 0, next |-> Null,
   started |-> 0, active |-> 0, errors |-> 0, result |-> "", parsed |-> Null,
   before |-> Null, served |-> 0, submitted |-> Null, saved |-> Null]

\* No driver run and no generate request has started.
IdleRuns ==
  /\ drv = IdleDrv
  /\ gen = IdleGen

\* There is no prompt history yet.
NoPromptFile == promptFile = [kind |-> "absent"]

GenFrame == UNCHANGED <<now, credVars, loadVars, galVars, pubVars, reqVars, tokVars, drv>>

\* dashboard.js:1857-1892: the handler up to its first await.
GenerateRequest ==
  /\ gen.pc \in {"idle", "done"}
  /\ gen.served < MaxGenerates
  /\ \E body \in RunBodies :
       LET normalized == Trim(body.prompt)
           req == [IdleGen EXCEPT
                     !.body = Some(body),
                     !.before = Some(promptFile),
                     !.served = gen.served + 1,
                     !.saved = gen.saved,
                     !.submitted = IF normalized # <<>> THEN Some(normalized)
                                   ELSE gen.submitted] IN
       gen' = IF body.color = <<>> /\ body.hijabFolder = <<>>
                THEN [req EXCEPT !.pc = "done", !.result = "badRequest"]
                ELSE [req EXCEPT
                        !.args = BuildArgs(body),
                        !.runCount = RunCount(body.count),
                        !.pc = IF body.prompt # <<>> /\ normalized # <<>>
                                 THEN "history" ELSE "run"]
  /\ UNCHANGED promptFile
  /\ GenFrame

\* dashboard.js:1893-1895: the history is loaded and the new list made.
LoadHistory ==
  /\ gen.pc = "history"
  /\ \E readOk \in BOOLEAN :
       gen' = [gen EXCEPT
                 !.next = Some(NextHistory(Trim(Val(gen.body).prompt),
                                           loadPromptHistory(promptFile, readOk))),
                 !.pc = "save"]
  /\ UNCHANGED promptFile
  /\ GenFrame

\* dashboard.js:1896 and 67-70: the list is written, or the write throws (500).
SaveHistory ==
  /\ gen.pc = "save"
  /\ \/ /\ promptFile' = HistoryFile(Val(gen.next))
        /\ gen' = [gen EXCEPT !.next = Null, !.pc = "run",
                              !.saved = Some(Trim(Val(gen.body).prompt))]
     \/ /\ gen' = [gen EXCEPT !.next = Null, !.pc = "done", !.result = "error"]
        /\ UNCHANGED promptFile
  /\ GenFrame

\* dashboard.js:1899-1900 and 1834-1836: the loop starts a driver process.
RunStart ==
  /\ gen.pc = "run"
  /\ gen.started < gen.runCount
  /\ gen' = [gen EXCEPT !.started = @ + 1, !.active = @ + 1, !.pc = "running"]
  /\ UNCHANGED promptFile
  /\ GenFrame

\* dashboard.js:1836-1841 and 1899-1906: the process exits; with an error
\* the handler answers 500, after the last run it answers success.
RunExit ==
  /\ gen.pc = "running"
  /\ \E ok \in BOOLEAN :
       gen' = IF ok
                THEN IF gen.started < gen.runCount
                       THEN [gen EXCEPT !.active = @ - 1, !.pc = "run"]
                       ELSE [gen EXCEPT !.active = @ - 1, !.pc = "done", !.result = "ok"]
                ELSE [gen EXCEPT !.active = @ - 1, !.errors = @ + 1,
                                 !.pc = "done", !.result = "error"]
  /\ UNCHANGED promptFile
  /\ GenFrame

\* dashboard.js:1857-1890: the argument list is built for a request body.
ArgsBuild ==
  /\ gen.pc = "idle"
  /\ \E body \in Bodies :
       /\ body.color # <<>> \/ body.hijabFolder # <<>>
       /\ gen' = [IdleGen EXCEPT !.body = Some(body), !.args = BuildArgs(body),
                                 !.pc = "built"]
  /\ UNCHANGED promptFile
  /\ GenFrame

\* part_000:205: the driver parses the list it was started with.
ArgsParse ==
  /\ gen.pc = "built"
  /\ \E envFolder \in {<<>>, <<"E">>} :
       gen' = [gen EXCEPT !.parsed = Some(parseArgs(gen.args, envFolder)),
                          !.pc = "parsed"]
  /\ UNCHANGED promptFile
  /\ GenFrame

\* Time passes.
Tick ==
  /\ now < MaxNow
  /\ now' = now + 1
  /\ UNCHANGED <<runVars, tokVars, credVars, loadVars, galVars, pubVars, reqVars>>

vars == <<now, credVars, loadVars, galVars, pubVars, reqVars, tokVars, runVars>>

(***************************************************************************)
(* Initial states.                                                         *)
(***************************************************************************)
GalleryFiles ==
  {[kind |-> "absent"], GalleryJson(<<NewImage(-1)>>)}

\* No request has arrived yet.
PublishIdle ==
  /\ galleryFile \in GalleryFiles
  /\ imageFiles = {-1}
  /\ gReq = [s \in GSlots |-> IdleReq]
  /\ gCount = 0
  /\ lastWrite = Null
  /\ publishedOk = {}
  /\ pubPc = "idle"
  /\ pubEntry = "handler"
  /\ pubImageId = 0
  /\ pubCreds = Null
  /\ status = ""
  /\ attempts = 0
  /\ calls = NoCalls
  /\ pubHist = NoHist
  /\ pubResult = ""
  /\ pubWrite = Null
  /\ pages = <<>>
  /\ tReq = [s \in TSlots |-> IdleTok]
  /\ tCount = 0
  /\ IdleRuns
  /\ NoPromptFile

\* dashboard.js:78 and 136: the state once the module has been evaluated.
\* loadTokens() was called and has not yet passed its first await.
InitStartup ==
  /\ now = 0
  /\ env \in Envs
  /\ tokensFile \in TokenFiles
  /\ instagramTokens = Null
  /\ loadPc = "start"
  /\ loadedFile = Null
  /\ loadedAt = 0
  /\ refreshRuns = 0
  /\ refreshCalls = 0
  /\ refreshWrite = Null
  /\ refreshAnswer = ""
  /\ PublishIdle

NextStartup == LoadPathExists \/ LoadRead \/ RefreshResponse \/ RefreshSave

NextPublish ==
  \/ PostHandler
  \/ CallPostToInstagram
  \/ Preflight
  \/ CreateContainer
  \/ Sleep
  \/ CheckStatus
  \/ PublishMedia
  \/ MarkRead
  \/ MarkWrite

(***************************************************************************)
(* Startup alone, over every stored record and environment.                *)
(***************************************************************************)
SpecStartup == InitStartup /\ [][NextStartup \/ Tick]_vars

(***************************************************************************)
(* Publishing, once loadTokens has finished.                               *)
(***************************************************************************)
\* Stored records for the publish runs: expired, expiring soon, fresh,
\* without expiry, and one without a token.
PublishRecords ==
  {r \in StoredRecords :
     \/ /\ r.accessToken = "tokA"
        /\ r.expiresAt \in {Null, Some(-24), Some(1), Some(1440)}
     \/ /\ r.accessToken = ""
        /\ r.expiresAt = Null}

PublishFiles == {FileAbsent} \cup {FileJson(r) : r \in PublishRecords}

\* The states in which loadTokens has run to its end on a host without
\* FB_APP_ID: the file was absent, or its record was loaded and either needed
\* no refresh or autoRefreshToken returned at its guard (dashboard.js:106).
Init ==
  /\ now = 0
  /\ env \in {e \in Envs : ~e.fbApp}
  /\ tokensFile \in PublishFiles
  /\ instagramTokens = IF tokensFile.kind = "json" THEN Some(tokensFile.rec) ELSE Null
  /\ loadPc = "done"
  /\ loadedFile = IF tokensFile.kind = "json" THEN Some(tokensFile) ELSE Null
  /\ loadedAt = 0
  /\ refreshRuns = IF tokensFile.kind = "json" /\ NeedsRefresh(tokensFile.rec, 0) THEN 1 ELSE 0
  /\ refreshCalls = 0
  /\ refreshWrite = Null
  /\ refreshAnswer = ""
  /\ PublishIdle

Next == NextPublish

Spec == Init /\ [][Next]_vars

(***************************************************************************)
(* Concurrent gallery requests and driver runs.                            *)
(***************************************************************************)
GalleryDocs ==
  {[kind |-> "absent"], [kind |-> "corrupt"],
   GalleryJson(<<NewImage(-1)>>),
   GalleryJson(<<NewImage(-2), [NewImage(-1) EXCEPT !.favorited = Some(TRUE)]>>)}

\* The gallery document and its image files before any gallery request;
\* nothing else is going on.
GalleryStart ==
  /\ now = 0
  /\ env = [fbApp |-> TRUE, publicUrl |-> TRUE, envToken |-> "", envUserId |-> ""]
  /\ tokensFile = FileAbsent
  /\ instagramTokens = Null
  /\ loadPc = "done"
  /\ loadedFile = Null
  /\ loadedAt = 0
  /\ refreshRuns = 0
  /\ refreshCalls = 0
  /\ refreshWrite = Null
  /\ refreshAnswer = ""
  /\ galleryFile \in GalleryDocs
  /\ imageFiles \in {{}, {-2, -1}}
  /\ publishedOk = {}
  /\ pubPc = "idle"
  /\ pubEntry = "handler"
  /\ pubImageId = 0
  /\ pubCreds = Null
  /\ status = ""
  /\ attempts = 0
  /\ calls = NoCalls
  /\ pubHist = NoHist
  /\ pubResult = ""
  /\ pubWrite = Null
  /\ pages = <<>>
  /\ tReq = [s \in TSlots |-> IdleTok]
  /\ tCount = 0
  /\ IdleRuns
  /\ gReq = [s \in GSlots |-> IdleReq]
  /\ gCount = 0
  /\ lastWrite = Null

InitGallery ==
  /\ GalleryStart
  /\ NoPromptFile

NextGallery ==
  \E s \in GSlots :
     \/ FavoriteRead(s)
     \/ CaptionRead(s)
     \/ MarkAsPostedRead(s)
     \/ DeleteRead(s)
     \/ DeleteFile(s)
     \/ DriverStamp(s)
     \/ DriverLoad(s)
     \/ GalleryWrite(s)

SpecGallery == InitGallery /\ [][NextGallery \/ Tick]_vars

(***************************************************************************)
(* One run of the generation driver, nothing else touching the document.   *)
(***************************************************************************)
InitDriver ==
  /\ InitGallery
  /\ imageFiles = {-2, -1}

NextDriver ==
  \/ MainSetup
  \/ MainGenerate
  \/ MainLoad
  \/ MainSave
  \/ MainDelay

SpecDriver == InitDriver /\ [][NextDriver]_vars

(***************************************************************************)
(* Generate requests, one after the other, and the argument list.          *)
(***************************************************************************)
\* The prompt history as earlier requests left it: nothing yet, or ten
\* prompts.
FullHistory ==
  << <<"0">>, <<"1">>, <<"2">>, <<"3">>, <<"4">>, <<"5">>, <<"6">>, <<"7">>,
     <<"8">>, <<"9">> >>

InitGenerate ==
  /\ GalleryStart
  /\ galleryFile = [kind |-> "absent"]
  /\ imageFiles = {}
  /\ promptFile \in {[kind |-> "absent"], HistoryFile(FullHistory)}

NextGenerate ==
  \/ GenerateRequest
  \/ LoadHistory
  \/ SaveHistory
  \/ RunStart
  \/ RunExit

SpecGenerate == InitGenerate /\ [][NextGenerate]_vars

InitArgs ==
  /\ InitGallery
  /\ galleryFile = [kind |-> "absent"]
  /\ imageFiles = {}
  /\ promptFile = [kind |-> "absent"]

NextArgs ==
  \/ ArgsBuild
  \/ ArgsParse

SpecArgs == InitArgs /\ [][NextArgs]_vars

(***************************************************************************)
(* Credential requests, once loadTokens has finished.                      *)
(***************************************************************************)
\* The record on file before any request, if there is one.
ConnectedRecord ==
  [accessToken |-> "tokA", userId |-> "ig1", username |-> "userA",
   expiresAt |-> Some(1440)]

InitTokens ==
  /\ now = 0
  /\ env \in {e \in Envs : e.fbApp /\ e.publicUrl /\ Truthy(e.envToken)}
  /\ tokensFile \in {FileAbsent, FileJson(ConnectedRecord)}
  /\ instagramTokens = IF tokensFile.kind = "json" THEN Some(tokensFile.rec) ELSE Null
  /\ loadPc = "done"
  /\ loadedFile = IF tokensFile.kind = "json" THEN Some(tokensFile) ELSE Null
  /\ loadedAt = 0
  /\ refreshRuns = 0
  /\ refreshCalls = 0
  /\ refreshWrite = Null
  /\ refreshAnswer = ""
  /\ galleryFile = [kind |-> "absent"]
  /\ imageFiles = {}
  /\ gReq = [s \in GSlots |-> IdleReq]
  /\ gCount = 0
  /\ lastWrite = Null
  /\ publishedOk = {}
  /\ pubPc = "idle"
  /\ pubEntry = "handler"
  /\ pubImageId = 0
  /\ pubCreds = Null
  /\ status = ""
  /\ attempts = 0
  /\ calls = NoCalls
  /\ pubHist = NoHist
  /\ pubResult = ""
  /\ pubWrite = Null
  /\ pages \in PageLists
  /\ tReq = [s \in TSlots |-> IdleTok]
  /\ tCount = 0
  /\ IdleRuns
  /\ NoPromptFile

NextTokens ==
  \E s \in TSlots :
     \/ CallbackStart(s)
     \/ CallbackCode(s)
     \/ CallbackLong(s)
     \/ CallbackPages(s)
     \/ CallbackAccount(s)
     \/ CallbackUsername(s)
     \/ PasteStart(s)
     \/ PasteLong(s)
     \/ PastePage(s)
     \/ TokensWrite(s)
     \/ DisconnectStart(s)
     \/ DisconnectExists(s)
     \/ DisconnectRemove(s)
     \/ InstagramStatus(s)

SpecTokens == InitTokens /\ [][NextTokens]_vars

(***************************************************************************)
(* Credential requests while loadTokens is still running: the server       *)
(* listens without waiting for the startup call (dashboard.js:136).        *)
(***************************************************************************)
\* The file holds a record, fresh or expiring soon; loadTokens has not
\* passed its first await.
InitRace ==
  /\ now = 0
  /\ env = [fbApp |-> TRUE, publicUrl |-> TRUE, envToken |-> "envTok", envUserId |-> "envUid"]
  /\ tokensFile \in {FileJson(ConnectedRecord),
                    FileJson([ConnectedRecord EXCEPT !.expiresAt = Some(1)])}
  /\ instagramTokens = Null
  /\ loadPc = "start"
  /\ loadedFile = Null
  /\ loadedAt = 0
  /\ refreshRuns = 0
  /\ refreshCalls = 0
  /\ refreshWrite = Null
  /\ refreshAnswer = ""
  /\ galleryFile = [kind |-> "absent"]
  /\ imageFiles = {}
  /\ gReq = [s \in GSlots |-> IdleReq]
  /\ gCount = 0
  /\ lastWrite = Null
  /\ publishedOk = {}
  /\ pubPc = "idle"
  /\ pubEntry = "handler"
  /\ pubImageId = 0
  /\ pubCreds = Null
  /\ status = ""
  /\ attempts = 0
  /\ calls = NoCalls
  /\ pubHist = NoHist
  /\ pubResult = ""
  /\ pubWrite = Null
  /\ pages \in {<<[id |-> FixedPageId, linked |-> TRUE]>>,
               <<[id |-> "pageB", linked |-> FALSE], [id |-> FixedPageId, linked |-> TRUE]>>}
  /\ tReq = [s \in TSlots |-> IdleTok]
  /\ tCount = 0
  /\ IdleRuns
  /\ NoPromptFile

NextRace == NextStartup \/ NextTokens

SpecRace == InitRace /\ [][NextRace]_vars

(***************************************************************************)
(* Properties of a publish attempt.                                        *)
(***************************************************************************)
NoNetworkCall ==
  calls.head = 0 /\ calls.create = 0 /\ calls.status = 0 /\ calls.publish = 0

PreflightErrors ==
  {"ValidationFetchFailed", "NotAccessible404", "NotAccessible", "NotImageContentType"}

\* C1: with no stored token and no environment fallback token or account id,
\* a publish attempt (through the handler or postToInstagram itself) has
\* ended with an error and has issued no network call: no HEAD, no container
\* creation, no status fetch, no media_publish.
C1_NoCredentialNoNetwork ==
  (pubPc # "idle" /\ pubHist.credSource = "none") =>
     /\ pubPc = "done"
     /\ pubResult \in {"NotConnected", "NoPublicUrl"}
     /\ NoNetworkCall

\* postToInstagram itself refused an attempt made without any credential.
C1_Witness ==
  /\ pubPc = "done"
  /\ pubEntry = "direct"
  /\ pubHist.credSource = "none"
  /\ pubResult = "NotConnected"

\* C2 as stated: an attempt begun with an expired stored credential issues no
\* network call.
C2_ExpiredNoNetwork ==
  (pubPc # "idle" /\ pubHist.credExpired) => NoNetworkCall

\* C2 as amended: the expiry is not consulted.  An attempt reaches the
\* pre-flight HEAD exactly when a token and an account id are at hand (and,
\* through the handler, PUBLIC_URL is set), whether or not the stored
\* credential has expired; otherwise it is refused without a network call.
C2_ExpiryNotConsulted ==
  pubPc # "idle" =>
     /\ (pubPc = "head" \/ calls.head = 1) <=>
          (pubHist.connected /\ (pubEntry = "direct" \/ env.publicUrl))
     /\ ~pubHist.connected => (pubPc = "done" /\ NoNetworkCall)

\* An attempt begun with an expired stored credential went through every
\* step of the protocol.
C2_Witness ==
  /\ pubHist.credExpired
  /\ calls.head = 1
  /\ calls.create = 1
  /\ calls.publish = 1
  /\ pubResult = "ok"

\* C3: within one attempt the HEAD, the container creation and media_publish
\* are each issued at most once; media_publish is issued only after the
\* pre-flight check passed, the creation answered without an error and the
\* poll ended with a status that is neither ERROR nor IN_PROGRESS; once a
\* step has failed, no later step has been issued.
C3_NoRetryAbortOnFailure ==
  /\ calls.head <= 1 /\ calls.create <= 1 /\ calls.publish <= 1
  /\ calls.status <= maxAttempts
  /\ calls.create = 1 => pubHist.preflightOk
  /\ calls.status >= 1 => pubHist.created
  /\ (pubPc = "publish" \/ calls.publish = 1) =>
       /\ pubHist.preflightOk
       /\ pubHist.created
       /\ calls.status >= 1
       /\ status \notin {"ERROR", "IN_PROGRESS"}
  /\ pubResult \in {"NotConnected", "NoPublicUrl"} => NoNetworkCall
  /\ pubResult \in PreflightErrors =>
       calls.create = 0 /\ calls.status = 0 /\ calls.publish = 0
  /\ (pubResult \in {"FetchFailed", "UpstreamError"} /\ ~pubHist.created) =>
       calls.status = 0 /\ calls.publish = 0
  /\ pubResult \in {"ProcessingError", "Timeout"} => calls.publish = 0
  /\ (pubResult = "FetchFailed" /\ calls.status > attempts) => calls.publish = 0

\* The poll ended with ERROR after at least two checks and the attempt was
\* aborted.
C3_Witness ==
  /\ pubPc = "done"
  /\ pubResult = "ProcessingError"
  /\ status = "ERROR"
  /\ calls.create = 1
  /\ calls.status >= 2

\* C4: when every status check of a finished attempt answered IN_PROGRESS,
\* there were exactly 30 checks, each after one wait, the attempt failed with
\* the timeout error, which is not the processing error, and media_publish
\* was not called.  A wait always precedes its check.
C4_TimeoutAfterThirty ==
  /\ calls.sleep = (IF pubPc = "status" THEN calls.status + 1 ELSE calls.status)
  /\ (pubPc = "done" /\ pubHist.created /\ pubHist.ipSeen = calls.status) =>
       /\ calls.status = 30
       /\ calls.sleep = 30
       /\ pubResult = "Timeout"
       /\ pubResult # "ProcessingError"
       /\ calls.publish = 0

\* An attempt timed out after thirty checks that all answered IN_PROGRESS.
C4_Witness ==
  /\ pubPc = "done"
  /\ pubResult = "Timeout"
  /\ pubHist.ipSeen = 30
  /\ calls.status = 30

\* C5: the poll ends at the first status answer that has neither status_code
\* nor status.  When check k is that answer (checks 1..k-1 having answered
\* IN_PROGRESS), exactly k status fetches have been made, the status is
\* FINISHED, no further wait or check follows, and the next step is the
\* media_publish call.
C5_NoStatusFieldEndsPoll ==
  pubHist.lastNoField =>
     /\ status = "FINISHED"
     /\ calls.status = pubHist.ipSeen + 1
     /\ calls.status = attempts
     /\ calls.status \in 1..30
     /\ pubPc \in {"publish", "markRead", "markWrite", "done"}
     /\ pubPc # "publish" => calls.publish = 1

\* The thirtieth check was the first without a status field and the publish
\* call followed.
C5_Witness ==
  /\ pubHist.lastNoField
  /\ pubHist.ipSeen = 29
  /\ calls.status = 30
  /\ calls.publish = 1

\* C6: a HEAD answer that is 2xx but declares no image type fails the
\* attempt with the content-type error, a HEAD answer that is not 2xx with
\* the reachability error, and in both cases no container is created.
C6_PreflightMessages ==
  ~IsNull(pubHist.headAnswer) =>
     LET a == Val(pubHist.headAnswer) IN
     /\ (a.ok /\ ~a.image) =>
          /\ pubResult = "NotImageContentType"
          /\ calls.create = 0
          /\ pubPc = "done"
     /\ ~a.ok =>
          /\ pubResult \in {"NotAccessible404", "NotAccessible"}
          /\ calls.create = 0
          /\ pubPc = "done"

\* The HEAD answer was neither 2xx nor an image and the attempt failed with
\* the reachability error.
C6_Witness ==
  /\ ~IsNull(pubHist.headAnswer)
  /\ ~Val(pubHist.headAnswer).ok
  /\ ~Val(pubHist.headAnswer).image
  /\ pubResult = "NotAccessible"

\* C8: a record of the gallery document is marked posted only if a publish
\* attempt for its id went through every step without error; an attempt
\* reads or writes the document only after its media_publish call succeeded,
\* so a failed publish leaves the document as it was.
C8_PostedOnlyAfterPublish ==
  /\ galleryFile.kind = "json" =>
       \A k \in 1..Len(galleryFile.images) :
          LET img == galleryFile.images[k] IN
          /\ img.postedToInstagram # Null => img.id \in publishedOk
          /\ img.postedAt # Null => img.postedToInstagram = Some(TRUE)
  /\ (pubPc \in {"markRead", "markWrite"} \/ pubWrite # Null \/ pubHist.wrote) =>
       /\ calls.publish = 1
       /\ pubImageId \in publishedOk
       /\ pubResult \in {"", "ok"}
  /\ (pubPc = "done" /\ pubResult \notin {"ok", "MarkFailed"}) => ~pubHist.wrote

\* A record was marked posted by an attempt that then reported success.
C8_Witness ==
  /\ pubPc = "done"
  /\ pubResult = "ok"
  /\ pubHist.wrote
  /\ galleryFile.kind = "json"
  /\ \E k \in 1..Len(galleryFile.images) :
        /\ galleryFile.images[k].id = pubImageId
        /\ galleryFile.images[k].postedToInstagram = Some(TRUE)

(***************************************************************************)
(* Properties of the startup load.                                         *)
(***************************************************************************)
\* loadTokens read a JSON record with an expiry.
LoadedWithExpiry ==
  /\ ~IsNull(loadedFile)
  /\ Val(loadedFile).kind = "json"
  /\ ~IsNull(Val(loadedFile).rec.expiresAt)

LoadedRecord == Val(loadedFile).rec
LoadedExpiry == Val(LoadedRecord.expiresAt)

\* C9: a stored record whose expiresAt is more than 7 days ahead, or in the
\* past, starts no refresh (autoRefreshToken is not invoked, no token
\* exchange is issued) and stays as it was, in memory and on file.
C9_NoRefreshOutsideWindow ==
  (/\ LoadedWithExpiry
   /\ \/ LoadedExpiry - loadedAt > 7 * HoursPerDay
      \/ LoadedExpiry - loadedAt < 0) =>
     /\ refreshRuns = 0
     /\ refreshCalls = 0
     /\ loadPc = "done"
     /\ instagramTokens = Some(LoadedRecord)
     /\ tokensFile = Val(loadedFile)

\* An expired record with a token was loaded.
C9_Witness ==
  /\ loadPc = "done"
  /\ LoadedWithExpiry
  /\ LoadedExpiry - loadedAt < 0
  /\ Truthy(LoadedRecord.accessToken)

\* C10 as stated: once loadTokens has finished with a record whose expiresAt
\* is between 0 and 7 days ahead, exactly one token exchange has been issued.
C10_ExactlyOneRefresh ==
  (/\ loadPc = "done"
   /\ LoadedWithExpiry
   /\ LoadedExpiry - loadedAt > 0
   /\ LoadedExpiry - loadedAt < 7 * HoursPerDay) =>
     refreshCalls = 1

\* C10 as amended: for a record with an access token whose expiresAt is
\* between 0 and 7 days ahead, autoRefreshToken is invoked exactly once; it
\* issues exactly one token exchange when FB_APP_ID and FB_APP_SECRET are
\* set and none when they are not.  No startup issues more than one.
C10_OneRefreshWhenConfigured ==
  /\ refreshCalls <= 1
  /\ refreshRuns <= 1
  /\ (/\ LoadedWithExpiry
      /\ Truthy(LoadedRecord.accessToken)
      /\ LoadedExpiry - loadedAt > 0
      /\ LoadedExpiry - loadedAt < 7 * HoursPerDay) =>
        /\ refreshRuns = 1
        /\ refreshCalls = (IF env.fbApp THEN 1 ELSE 0)

\* The renewed token of a record that was about to expire has been saved.
C10_Witness ==
  /\ loadPc = "done"
  /\ LoadedWithExpiry
  /\ LoadedExpiry - loadedAt = 7 * HoursPerDay - 1
  /\ refreshCalls = 1
  /\ tokensFile.kind = "json"
  /\ tokensFile.rec.accessToken = "tokNew"

\* C11 as stated: when the token exchange of the startup refresh threw,
\* answered an error payload or answered without access_token, the credential
\* in memory and on file is the one loadTokens had read.
C11_FailedRefreshKeepsCredential ==
  refreshAnswer \in {"throw", "error", "noToken"} =>
     /\ instagramTokens = Some(LoadedRecord)
     /\ tokensFile = Val(loadedFile)

\* The token exchange answered without access_token and without error, and
\* the record was saved: the token that was loaded is gone from memory and
\* from the file.
C11_Witness ==
  /\ loadPc = "done"
  /\ refreshAnswer = "noToken"
  /\ LoadedRecord.accessToken = "tokA"
  /\ instagramTokens # Null
  /\ Val(instagramTokens).accessToken = ""
  /\ tokensFile.kind = "json"
  /\ tokensFile.rec.accessToken = ""

(***************************************************************************)
(* Properties of credential requests.                                      *)
(***************************************************************************)
\* A record with both an access token and an account id.
RecordComplete(r) == Truthy(r.accessToken) /\ Truthy(r.userId)

\* The request in slot s is the last one started and has ended.
LastEnded(s) == s = tCount /\ tReq[s].pc = "done"

\* C12 as stated: the credential in memory and the credential on file are
\* each either absent or a record with both an access token and an account
\* id.
C12_CredentialComplete ==
  /\ ~IsNull(instagramTokens) => RecordComplete(Val(instagramTokens))
  /\ tokensFile.kind = "json" => RecordComplete(tokensFile.rec)

\* The manual paste reported success and the record it saved, in memory and
\* on file, has no access token.
C12_Witness ==
  \E s \in TSlots :
     /\ LastEnded(s)
     /\ tReq[s].kind = "paste"
     /\ tReq[s].result = "ok"
     /\ ~IsNull(instagramTokens)
     /\ ~Truthy(Val(instagramTokens).accessToken)
     /\ tokensFile = FileJson(Val(instagramTokens))

\* C13 as stated: a callback or paste that ended with an error leaves the
\* credential, in memory and on file, as it was when the request began; and
\* when no Page of the user has a linked account, a request whose calls were
\* all answered ends with an error.
C13_FailedPathLeavesCredential ==
  \A s \in TSlots :
     /\ (/\ LastEnded(s)
         /\ tReq[s].kind \in {"callback", "paste"}
         /\ tReq[s].result # "ok") =>
          /\ instagramTokens = tReq[s].before.mem
          /\ tokensFile = tReq[s].before.file
     /\ (/\ tReq[s].pc = "done"
         /\ tReq[s].kind \in {"callback", "paste"}
         /\ tReq[s].clean
         /\ \A k \in 1..Len(pages) : ~pages[k].linked) =>
          tReq[s].result # "ok"

\* The write of the credential file failed, the request reported the error,
\* and the credential in memory is the new record while the file is as
\* before.
C13_Witness ==
  \E s \in TSlots :
     /\ LastEnded(s)
     /\ tReq[s].result = "WriteFailed"
     /\ instagramTokens = tReq[s].tokens
     /\ instagramTokens # tReq[s].before.mem
     /\ tokensFile = tReq[s].before.file

\* The index of the first Page of the list with a linked account, 0 when no
\* Page has one.
FirstLinked(ps) ==
  IF \E k \in 1..Len(ps) : ps[k].linked
    THEN CHOOSE k \in 1..Len(ps) :
           /\ ps[k].linked
           /\ \A j \in 1..(k - 1) : ~ps[j].linked
    ELSE 0

\* The callback in slot s and the paste in slot u both ran to their end on
\* answers that reflect the user's Pages: no call threw, none answered an
\* error payload for something the platform holds, no write failed.
BothPathsRan(s, u) ==
  /\ tReq[s].kind = "callback" /\ tReq[u].kind = "paste"
  /\ tReq[s].pc = "done" /\ tReq[u].pc = "done"
  /\ tReq[s].clean /\ tReq[u].clean
  /\ tReq[s].result \notin {"AuthorizationError", "NoCode"}
  /\ tReq[u].result # "TokenRequired"

\* Both requests failed, or both saved the same access token, account id and
\* username.
SameOutcome(a, b) ==
  \/ a.result # "ok" /\ b.result # "ok"
  \/ /\ a.result = "ok" /\ b.result = "ok"
     /\ Val(a.tokens).accessToken = Val(b.tokens).accessToken
     /\ Val(a.tokens).userId = Val(b.tokens).userId
     /\ Val(a.tokens).username = Val(b.tokens).username

\* C14 as stated: on the same Pages the callback and the paste end in the
\* same outcome.
C14_SameOutcome ==
  \A s, u \in TSlots : BothPathsRan(s, u) => SameOutcome(tReq[s], tReq[u])

\* The fixed Page is the first Page with a linked account, or the user has
\* neither the fixed Page nor a linked account.
FixedPageFirst(ps) ==
  IF FirstLinked(ps) # 0
    THEN ps[FirstLinked(ps)].id = FixedPageId
    ELSE ~HasFixedPage(ps)

\* C14 as amended: the paste looks up the one fixed Page instead of the list.
\* It saves that Page's token with the linked account's id and username, or
\* with the fallback id and username when that Page has no linked account,
\* and fails when the Page is not the user's.  Its outcome is the callback's
\* exactly when the fixed Page is the first Page with a linked account (or
\* neither exists).
C14_SameOutcomeOnFixedPage ==
  \A s, u \in TSlots :
     BothPathsRan(s, u) =>
        /\ SameOutcome(tReq[s], tReq[u]) <=> FixedPageFirst(pages)
        /\ tReq[u].result = "ok" <=> HasFixedPage(pages)
        /\ tReq[u].result = "ok" =>
             /\ Val(tReq[u].tokens).accessToken = "ptFixed"
             /\ Val(tReq[u].tokens).pageId = FixedPageId
             /\ TheFixedPage(pages).linked =>
                  /\ Val(tReq[u].tokens).userId = "igFixed"
                  /\ Val(tReq[u].tokens).username = "nameFixed"
             /\ ~TheFixedPage(pages).linked =>
                  /\ Val(tReq[u].tokens).userId = FallbackUserId
                  /\ Val(tReq[u].tokens).username = FallbackUsername

\* With the fixed Page unlinked and listed before a linked one, the callback
\* saved the second Page's account and the paste the fallback account.
C14_Witness ==
  /\ Len(pages) = 2
  /\ pages[1].id = FixedPageId /\ ~pages[1].linked /\ pages[2].linked
  /\ \E s, u \in TSlots :
        /\ BothPathsRan(s, u)
        /\ tReq[s].result = "ok" /\ tReq[u].result = "ok"
        /\ Val(tReq[s].tokens).userId = "igB"
        /\ Val(tReq[u].tokens).userId = FallbackUserId

\* C15: the record the callback hands to saveTokens is that of a Page with a
\* linked account: the Page's own access token, never the user token, and
\* the id of the account linked to it.  When every lookup was answered, it
\* is the first such Page in the order listed, with the account's username;
\* a successful callback that is the last request leaves that record in
\* memory and on file.
C15_FirstLinkedPageWins ==
  \A s \in TSlots :
     (tReq[s].kind = "callback" /\ ~IsNull(tReq[s].tokens)) =>
        LET r == Val(tReq[s].tokens) IN
        /\ \E k \in 1..Len(pages) :
              /\ pages[k].linked
              /\ r.pageId = pages[k].id
              /\ r.accessToken = PageToken(pages[k])
              /\ r.userId = AccountId(pages[k])
        /\ r.accessToken \notin {"short", "long"}
        /\ tReq[s].clean =>
             /\ r.pageId = pages[FirstLinked(pages)].id
             /\ r.username = AccountName(pages[FirstLinked(pages)])
        /\ (LastEnded(s) /\ tReq[s].result = "ok") =>
             /\ instagramTokens = Some(r)
             /\ tokensFile = FileJson(r)

\* Of two Pages only the second has a linked account, and the callback saved
\* the second Page's token, account id and username.
C15_Witness ==
  /\ Len(pages) = 2
  /\ ~pages[1].linked /\ pages[2].linked /\ pages[2].id = "pageB"
  /\ \E s \in TSlots :
        /\ LastEnded(s)
        /\ tReq[s].kind = "callback"
        /\ tReq[s].result = "ok"
        /\ tReq[s].clean
  /\ ~IsNull(instagramTokens)
  /\ Val(instagramTokens).accessToken = "ptB"
  /\ Val(instagramTokens).userId = "igB"
  /\ Val(instagramTokens).username = "nameB"
  /\ tokensFile = FileJson(Val(instagramTokens))

\* C16 as stated: a credential request that received an error payload, at
\* whichever remote call, has stopped there and raised the upstream message.
C16_ErrorPayloadStopsPath ==
  \A s \in TSlots :
     tReq[s].errorAt # "" =>
        /\ tReq[s].pc = "done"
        /\ tReq[s].result = "Upstream"

\* The long-lived exchange of the callback answered an error payload, the
\* callback went on with the short-lived token and saved a credential.
C16_Witness ==
  \E s \in TSlots :
     /\ tReq[s].kind = "callback"
     /\ tReq[s].errorAt = "long"
     /\ tReq[s].pc = "done"
     /\ tReq[s].result = "ok"

\* The credential in memory and the credential file hold the same record, or
\* both are absent.
MemFileAgree ==
  IF IsNull(instagramTokens)
    THEN tokensFile.kind = "absent"
    ELSE tokensFile = FileJson(Val(instagramTokens))

\* C17 as stated: when no credential request is in flight, the credential in
\* memory and the credential file agree, and a status read that follows a
\* save returns the saved token, account id and username.
C17_MemoryAndFileAgree ==
  /\ (\A s \in TSlots : tReq[s].pc \in {"idle", "done"}) => MemFileAgree
  /\ \A s \in TSlots :
        (/\ s > 1
         /\ tReq[s].kind = "status" /\ tReq[s].pc = "done"
         /\ ~IsNull(tReq[s - 1].tokens)) =>
           /\ Val(tReq[s].creds).accessToken = Val(tReq[s - 1].tokens).accessToken
           /\ Val(tReq[s].creds).userId = Val(tReq[s - 1].tokens).userId
           /\ Val(tReq[s].creds).username = Val(tReq[s - 1].tokens).username

\* A save whose file write failed was followed by a status read: the read
\* returned the new record, which is in memory, while the file is as it was
\* before the save.
C17_Witness ==
  /\ tCount = 2
  /\ tReq[1].result = "WriteFailed"
  /\ tReq[2].kind = "status" /\ tReq[2].pc = "done"
  /\ Val(tReq[2].creds).accessToken = Val(tReq[1].tokens).accessToken
  /\ instagramTokens = tReq[1].tokens
  /\ tokensFile = tReq[1].before.file
  /\ ~MemFileAgree

\* C18: a status read returns the token, account id and username of the
\* record in memory when that record has a token; otherwise it returns
\* INSTAGRAM_ACCESS_TOKEN and INSTAGRAM_USER_ID with the username
\* silkpath.co, and nothing of the record.
C18_TwoTierCredentials ==
  \A s \in TSlots :
     (tReq[s].kind = "status" /\ tReq[s].pc = "done") =>
        LET m == tReq[s].before.mem
            c == Val(tReq[s].creds) IN
        IF ~IsNull(m) /\ Val(m).accessToken # ""
          THEN /\ c.accessToken = Val(m).accessToken
               /\ c.userId = Val(m).userId
               /\ c.username = Val(m).username
          ELSE /\ c.accessToken = env.envToken
               /\ c.userId = env.envUserId
               /\ c.username = "silkpath.co"

\* The record in memory had an account id but no token, and the status read
\* returned the environment's token and account id with the default
\* username.
C18_Witness ==
  \E s \in TSlots :
     /\ tReq[s].kind = "status" /\ tReq[s].pc = "done"
     /\ ~IsNull(tReq[s].before.mem)
     /\ Val(tReq[s].before.mem).accessToken = ""
     /\ Val(tReq[s].before.mem).userId = "igFixed"
     /\ env.envUserId = "envUid"
     /\ Val(tReq[s].creds) =
          [accessToken |-> "envTok", userId |-> "envUid", username |-> "silkpath.co"]

(***************************************************************************)
(* Properties of concurrent gallery requests.                              *)
(***************************************************************************)
\* C7: the last writer wins.  The document on disk is what the request whose
\* write landed last made of the images it had read: whatever other requests
\* wrote between that read and that write is gone, although they answered
\* success.
C7_LastWriterWins ==
  ~IsNull(lastWrite) =>
     LET w == Val(lastWrite) IN
     galleryFile = GalleryJson(Mutate(w.kind, w.snap, FindIndex(w.snap, w.id),
                                      w.id, w.arg, w.at))

\* A favorite toggle and a caption edit of the same record were the only two
\* requests, both answered success after writing, and the document has the
\* new caption but not the toggled flag.
C7_Witness ==
  /\ gCount = 2
  /\ \E s, u \in GSlots :
        /\ gReq[s].kind = "favorite" /\ gReq[u].kind = "caption"
        /\ gReq[s].id = -1 /\ gReq[u].id = -1
        /\ gReq[s].pc = "done" /\ gReq[u].pc = "done"
        /\ gReq[s].result = "ok" /\ gReq[u].result = "ok"
        /\ gReq[s].wrote /\ gReq[u].wrote
  /\ galleryFile.kind = "json"
  /\ \E k \in 1..Len(galleryFile.images) :
        /\ galleryFile.images[k].id = -1
        /\ galleryFile.images[k].caption = "c1"
        /\ galleryFile.images[k].favorited = Null

\* C19 as stated: a request whose lookup found no record with its id ends
\* with the answer "not found" and has written nothing.
C19_NotFoundOutcome ==
  \A s \in GSlots :
     (gReq[s].pc = "done" /\ gReq[s].missing) =>
        /\ gReq[s].result = "notFound"
        /\ ~gReq[s].wrote

\* markAsPosted found no record with the id of the published image and the
\* request ended like a success.
C19_Witness ==
  \E s \in GSlots :
     /\ gReq[s].kind = "markPosted"
     /\ gReq[s].pc = "done"
     /\ gReq[s].missing
     /\ gReq[s].result = "ok"

\* C20: a delete whose record was found but whose image file was not there
\* goes on to write the document.  It ends with success unless that write
\* fails, and the document it writes is the one it read without the record:
\* every other record is as it was, in the same order.
C20_DeleteWithMissingFile ==
  /\ \A s \in GSlots :
        (gReq[s].kind = "delete" /\ gReq[s].noFile) =>
           /\ gReq[s].pc \in {"write", "done"}
           /\ ~gReq[s].missing
           /\ gReq[s].pc = "done" =>
                /\ gReq[s].result \in {"ok", "ioError"}
                /\ gReq[s].result = "ok" <=> gReq[s].wrote
  /\ \A s \in GSlots :
        (/\ gReq[s].kind = "delete" /\ gReq[s].noFile
         /\ ~IsNull(lastWrite) /\ Val(lastWrite).slot = s) =>
           LET snap == Val(gReq[s].snap)
               k == FindIndex(snap, gReq[s].id) IN
           /\ gReq[s].result = "ok"
           /\ galleryFile.kind = "json"
           /\ Len(galleryFile.images) = Len(snap) - 1
           /\ \A j \in 1..(k - 1) : galleryFile.images[j] = snap[j]
           /\ \A j \in (k + 1)..Len(snap) : galleryFile.images[j - 1] = snap[j]

\* The record -1 had no image file; the delete answered success and the
\* document holds the other record only.
C20_Witness ==
  \E s \in GSlots :
     /\ gReq[s].kind = "delete" /\ gReq[s].id = -1
     /\ gReq[s].noFile
     /\ gReq[s].pc = "done" /\ gReq[s].result = "ok"
     /\ gCount = 1
     /\ galleryFile = GalleryJson(<<NewImage(-2)>>)


\* The favorited flag as every reader takes it: a missing flag is false.
IsFavorited(f) == ~NotFavorited(f)

\* Slot u toggled the record that slot s had toggled, having read the
\* document that s wrote, and the write of u is the last one.
ToggledTwice(s, u) ==
  /\ s # u
  /\ gReq[s].kind = "favorite" /\ gReq[u].kind = "favorite"
  /\ gReq[s].id = gReq[u].id
  /\ gReq[s].pc = "done" /\ gReq[u].pc = "done"
  /\ gReq[s].wrote /\ gReq[u].wrote
  /\ gReq[u].snap = Some(ToggleFavorite(Val(gReq[s].snap),
                                        FindIndex(Val(gReq[s].snap), gReq[s].id)))
  /\ ~IsNull(lastWrite) /\ Val(lastWrite).slot = u

\* C21 as stated: two toggles in sequence leave the document as it was
\* before the first, every field of every record included.
C21_DoubleToggleIdentical ==
  \A s, u \in GSlots :
     ToggledTwice(s, u) => galleryFile = GalleryJson(Val(gReq[s].snap))

\* C21: two toggles in sequence leave every record with the favorited value
\* it had, a missing flag counting as false, and with every other field as
\* it was; a flag that was missing is stored as false afterwards.
C21_DoubleToggleRestores ==
  \A s, u \in GSlots :
     ToggledTwice(s, u) =>
        LET a == Val(gReq[s].snap)
            b == galleryFile.images IN
        /\ galleryFile.kind = "json"
        /\ Len(b) = Len(a)
        /\ \A j \in 1..Len(a) :
              /\ IsFavorited(b[j].favorited) = IsFavorited(a[j].favorited)
              /\ [b[j] EXCEPT !.favorited = Null] = [a[j] EXCEPT !.favorited = Null]
              /\ (j = FindIndex(a, gReq[s].id) => ~IsNull(b[j].favorited))

\* A record the driver appended, which has no favorited flag, was toggled
\* twice in sequence and now carries the flag false.
C21_Witness ==
  \E s, u \in GSlots :
     /\ ToggledTwice(s, u)
     /\ LET k == FindIndex(Val(gReq[s].snap), gReq[s].id) IN
        /\ IsNull(Val(gReq[s].snap)[k].favorited)
        /\ galleryFile.images[k].favorited = Some(FALSE)


\* C22 as stated: no two records of the gallery document carry the same id.
C22_UniqueIds ==
  galleryFile.kind = "json" =>
     \A j, k \in 1..Len(galleryFile.images) :
        galleryFile.images[j].id = galleryFile.images[k].id => j = k

\* Two driver runs took the same reading of the clock as their id, each
\* appended its record, the second after reading what the first had written,
\* and the document holds both records under one id.
C22_Witness ==
  /\ \E s, u \in GSlots :
        /\ s # u
        /\ gReq[s].kind = "append" /\ gReq[u].kind = "append"
        /\ gReq[s].id = gReq[u].id
        /\ gReq[s].wrote /\ gReq[u].wrote
  /\ galleryFile.kind = "json"
  /\ \E j, k \in 1..Len(galleryFile.images) :
        j # k /\ galleryFile.images[j].id = galleryFile.images[k].id


(***************************************************************************)
(* Properties of a driver run.                                             *)
(***************************************************************************)
\* C23 as stated: a run in which a generation failed ends with a non-zero
\* exit status, and no run appends more records than it generated images.
C23_FailedRunExitsNonZero ==
  /\ drv.appended <= drv.generated
  /\ (drv.pc = "done" /\ drv.failed > 0) => drv.exit = "exit1"

\* A run in hijab-folder mode in which every generation failed has ended
\* with exit status 0 and the document as it was.
C23_Witness ==
  /\ drv.pc = "done"
  /\ drv.mode = "hijab"
  /\ drv.failed > 0 /\ drv.generated = 0
  /\ drv.appended = 0
  /\ drv.exit = "exit0"


(***************************************************************************)
(* Properties of the publish protocol, continued.                          *)
(***************************************************************************)
\* C24 as stated: media_publish is called only when the last status seen is
\* FINISHED, or the status field was missing from an answer that was not an
\* error payload.
C24_PublishOnlyWhenFinished ==
  calls.publish > 0 =>
     /\ status = "FINISHED"
     /\ ~pubHist.lastError

\* media_publish was called after the last status check answered EXPIRED.
C24_Witness ==
  /\ calls.publish > 0
  /\ status = "EXPIRED"
  /\ ~pubHist.lastError

\* media_publish was called after the last status check answered an error
\* payload, which the loop took for FINISHED.
C24_ErrorPayloadPublished ==
  /\ calls.publish > 0
  /\ status = "FINISHED"
  /\ pubHist.lastError


\* The record of the requested image is in the document and marked posted.
RecordedAsPosted ==
  /\ galleryFile.kind = "json"
  /\ \E k \in 1..Len(galleryFile.images) :
        /\ galleryFile.images[k].id = pubImageId
        /\ galleryFile.images[k].postedToInstagram = Some(TRUE)

\* C26 as stated: once media_publish has succeeded for a request of the
\* handler, the request ends reporting success and with the record of the
\* requested id marked posted.
C26_PublishedIsReportedAndRecorded ==
  (pubPc = "done" /\ pubEntry = "handler" /\ pubImageId \in publishedOk) =>
     /\ pubResult = "ok"
     /\ RecordedAsPosted

\* media_publish succeeded, markAsPosted threw, and the request was answered
\* with an error; the record is not marked posted.
C26_Witness ==
  /\ pubPc = "done" /\ pubEntry = "handler"
  /\ pubImageId \in publishedOk
  /\ pubResult = "MarkFailed"
  /\ ~RecordedAsPosted

\* media_publish succeeded, the document holds no record with the requested
\* id, and the request was answered with success.
C26_MissingRecordReportedPosted ==
  /\ pubPc = "done" /\ pubEntry = "handler"
  /\ pubImageId \in publishedOk
  /\ pubResult = "ok"
  /\ galleryFile.kind = "json"
  /\ FindIndex(galleryFile.images, pubImageId) = 0


(***************************************************************************)
(* Properties of concurrent gallery requests, continued.                   *)
(***************************************************************************)
\* The write of the driver run in slot s lands in this step.
AppendLands(s) ==
  /\ gReq[s].kind = "append"
  /\ gReq[s].pc = "write"
  /\ gReq'[s].pc = "done"
  /\ gReq'[s].wrote

\* C27 as stated: every record that is in the document when a write of the
\* driver lands is in it afterwards, with the field values it had on disk.
C27_AppendKeepsRecords ==
  [][\A s \in GSlots :
       AppendLands(s) =>
          \A k \in 1..Len(loadGalleryData(galleryFile)) :
             \E j \in 1..Len(loadGalleryData(galleryFile')) :
                loadGalleryData(galleryFile')[j] = loadGalleryData(galleryFile)[k]]_vars

\* A favorite toggle was answered with success after its write, the write of
\* a driver run that had read the document before landed after it, and the
\* record has the favorited value that the toggle had read.
C27_Witness ==
  \E s, u \in GSlots :
     /\ gReq[s].kind = "append" /\ gReq[s].pc = "done" /\ gReq[s].wrote
     /\ ~IsNull(lastWrite) /\ Val(lastWrite).slot = s
     /\ gReq[u].kind = "favorite" /\ gReq[u].pc = "done"
     /\ gReq[u].wrote /\ gReq[u].result = "ok"
     /\ LET before == Val(gReq[u].snap)
            k == FindIndex(galleryFile.images, gReq[u].id) IN
        /\ k > 0
        /\ galleryFile.images[k].favorited
              = before[FindIndex(before, gReq[u].id)].favorited


(***************************************************************************)
(* Properties of generate requests.                                        *)
(***************************************************************************)
\* C28 as stated: when the request names a hijab folder (not Random, no
\* color) the driver's parseArgs yields that folder, whatever else the
\* request carries.
C28_SelectedFolderIsUsed ==
  (gen.pc = "parsed"
     /\ Val(gen.body).color = <<>>
     /\ Val(gen.body).hijabFolder \notin {<<>>, Random}) =>
        Val(gen.parsed).hijabFolder = Val(gen.body).hijabFolder

\* The request named folder F and a model; the argument list is
\* --hijab F --model m, and parseArgs yields the model name as the folder.
C28_Witness ==
  /\ gen.pc = "parsed"
  /\ Val(gen.body).hijabFolder = <<"F">>
  /\ Val(gen.body).model = <<"m">>
  /\ gen.args = <<Flag("hijab"), <<"F">>, Flag("model"), <<"m">>>>
  /\ Val(gen.parsed).hijabFolder = <<"m">>

\* min(max(count, 1), 10), a count that is not a number taken as 1.
ExpectedRuns(count) ==
  LET n == IF IsNull(count) THEN 1 ELSE Val(count) IN
  IF n < 1 THEN 1 ELSE IF n > 10 THEN 10 ELSE n

\* C29: a request starts at most min(max(count, 1), 10) driver runs and never
\* has two running; it answers success only after that many runs exited
\* without error; the first run that exits with an error ends the request
\* with an error; a request with neither color nor hijab folder is refused
\* without a run.
C29_RunsBoundedAndSequential ==
  /\ gen.active \in {0, 1}
  /\ gen.active = 1 <=> gen.pc = "running"
  /\ ~IsNull(gen.body) =>
       LET b == Val(gen.body) IN
       /\ gen.started <= ExpectedRuns(b.count)
       /\ gen.errors \in {0, 1}
       /\ gen.errors = 1 => (gen.pc = "done" /\ gen.result = "error")
       /\ (gen.pc = "done" /\ gen.result = "ok") =>
             (gen.started = ExpectedRuns(b.count) /\ gen.errors = 0)
       /\ (b.color = <<>> /\ b.hijabFolder = <<>>) =>
             (gen.pc = "done" /\ gen.result = "badRequest" /\ gen.started = 0)

\* A request with count 11 has been answered with success after ten runs.
C29_Witness ==
  /\ gen.pc = "done" /\ gen.result = "ok"
  /\ Val(gen.body).count = Some(11)
  /\ gen.started = 10
  /\ gen.errors = 0

\* The list in the prompt history file.
StoredHistory == IF promptFile.kind = "json" THEN promptFile.list ELSE <<>>

NoDuplicates(h) == \A i, j \in 1..Len(h) : h[i] = h[j] => i = j

\* No entry is empty or has a blank at either end.
AllTrimmed(h) ==
  \A i \in 1..Len(h) : h[i] # <<>> /\ Head(h[i]) # " " /\ h[i][Len(h[i])] # " "

\* The request in flight or just ended cannot have changed the history: its
\* prompt is blank, it was refused, or its write of the history threw.
LeavesHistory ==
  /\ ~IsNull(gen.body)
  /\ \/ Trim(Val(gen.body).prompt) = <<>>
     \/ gen.result = "badRequest"
     \/ (gen.result = "error" /\ gen.errors = 0)

\* C30 as stated: the history has at most ten entries and no duplicates, and
\* after a request its first entry is the last prompt submitted that was not
\* blank, trimmed.
C30_LatestSubmittedFirst ==
  /\ Len(StoredHistory) <= 10
  /\ NoDuplicates(StoredHistory)
  /\ (gen.pc = "done" /\ ~IsNull(gen.submitted)) =>
        (StoredHistory # <<>> /\ StoredHistory[1] = Val(gen.submitted))

\* C30: the history has at most ten entries, all trimmed, and no duplicates;
\* its first entry is the trimmed prompt of the last request that wrote it;
\* a request with a blank prompt, a refused request and a request whose
\* write of the history failed leave it as it was.
C30_LatestSavedFirst ==
  /\ Len(StoredHistory) <= 10
  /\ NoDuplicates(StoredHistory)
  /\ AllTrimmed(StoredHistory)
  /\ ~IsNull(gen.saved) =>
        (StoredHistory # <<>> /\ StoredHistory[1] = Val(gen.saved))
  /\ LeavesHistory => promptFile = Val(gen.before)

\* A request with the prompt " a " came to a history of ten prompts: the
\* history holds "a" first, still ten entries, and has lost its last one.
C30_Witness ==
  /\ gen.pc = "done"
  /\ Val(gen.body).prompt = <<" ", "a", " ">>
  /\ Val(gen.before) = HistoryFile(FullHistory)
  /\ Len(StoredHistory) = 10
  /\ StoredHistory[1] = <<"a">>
  /\ \A i \in 1..10 : StoredHistory[i] # <<"9">>


(***************************************************************************)
(* Properties of credential requests that overlap the startup load.        *)
(***************************************************************************)
\* Everything has come to its end: loadTokens, and the requests started, of
\* which slot s holds the last, a save or a disconnect answered with success.
AllEndedWith(s) ==
  /\ loadPc = "done"
  /\ LastEnded(s)
  /\ tReq[s].result = "ok"
  /\ tReq[s].kind \in {"paste", "callback", "disconnect"}

\* C25 as stated: when the startup load and the user's requests have all
\* ended, the credential in memory is the one the last request set: the
\* record it saved, or none after a disconnect.
C25_UserActionWins ==
  \A s \in TSlots :
     AllEndedWith(s) =>
        IF tReq[s].kind = "disconnect"
          THEN IsNull(instagramTokens)
          ELSE instagramTokens = tReq[s].tokens

\* A paste was answered with success, loadTokens has ended, and the
\* credential in memory carries the token of the record that was on file at
\* startup, not the one the paste saved.
C25_Witness ==
  \E s \in TSlots :
     /\ AllEndedWith(s)
     /\ tReq[s].kind = "paste"
     /\ tokensFile = FileJson(Val(tReq[s].tokens))
     /\ ~IsNull(instagramTokens)
     /\ Val(instagramTokens).accessToken = ConnectedRecord.accessToken
     /\ Val(tReq[s].tokens).accessToken # ConnectedRecord.accessToken

====
